---- MODULE Spec2Model ----
(***************************************************************************)
(* A model of gipam, an IP address management engine.                      *)
(*                                                                         *)
(*  - the in-memory allocation database of src/database/db.go: a forest of *)
(*    Allocations (sorted child slices, parent pointers, per-allocation    *)
(*    host index), the host list, the address index and the per-address    *)
(*    parent back-references of every host;                                 *)
(*  - the CIDR arithmetic under it, on byte slices as Go's net.IP has it.   *)
(*                                                                         *)
(* Pointers are modelled as references into a heap: an Allocation pointer   *)
(* is <<Net, k>>, a Host pointer is <<k>>, NIL is the nil pointer.           *)
(* Objects that nothing reaches any more are dropped from the heap, as the  *)
(* garbage collector drops them.                                            *)
(***************************************************************************)
EXTENDS Integers, Sequences, FiniteSets, TLC

\* ---------------------------------------------------------------- bounds

\* Most allocations the forest holds at one time.
MaxAllocs == 5
\* Most hosts registered at one time.
MaxHosts == 2
\* Most addresses in one host's address list.
MaxAddrs == 2

\* ------------------------------------------------------- program constants

\* net.CIDRMask(32, 32): the width of an IPv4 address, in bits.
V4Bits == 32
\* net.CIDRMask(128, 128): the width of an IPv6 address, in bits.
V6Bits == 128

NIL == <<>>

\* The nil error.
OK == ""

Min(a, b) == IF a < b THEN a ELSE b
Max(a, b) == IF a > b THEN a ELSE b

\* F(v), with v computed once.
With(v, F(_)) == F(v)

\* ------------------------------------------------------------ net.IP

\* The 12 bytes that prefix an IPv4 address held in 16 bytes.
v4InV6Prefix == <<0, 0, 0, 0, 0, 0, 0, 0, 0, 0, 255, 255>>

\* ip.To4(): the 4-byte form of an IPv4 address, nil for anything else.
To4(ip) ==
    IF Len(ip) = V4Bits \div 8 THEN ip
    ELSE IF Len(ip) = V6Bits \div 8 /\ SubSeq(ip, 1, 12) = v4InV6Prefix
         THEN SubSeq(ip, 13, 16)
         ELSE NIL

\* ip.To16(): the 16-byte form of an address.
To16(ip) ==
    IF Len(ip) = V4Bits \div 8 THEN v4InV6Prefix \o ip
    ELSE IF Len(ip) = V6Bits \div 8 THEN ip
    ELSE NIL

isv4(ip) == To4(ip) # NIL

\* ip.String(): both slice forms of an IPv4 address print the same text, and
\* two different addresses never do.  The text is modelled by the 16-byte
\* form it denotes.
IPString(ip) == To16(ip)

\* net.ParseIP(text): always the 16-byte form.
ParseIP(s) == s

\* ip.Equal(x): the same address, whatever the slice form.
IPEqual(a, b) == To16(a) = To16(b)

\* One byte of an address ANDed with the matching byte of a mask of `ones`
\* leading one bits; i is the byte's index, from 1.
MaskByte(b, ones, i) ==
    LET keep == Max(0, Min(8, ones - 8 * (i - 1)))
        unit == 2 ^ (8 - keep)
    IN  (b \div unit) * unit

\* ip.Mask(mask), the mask being net.CIDRMask(ones, bits).
IPMask(ip, ones, bits) ==
    LET m == IF bits = V6Bits /\ Len(ip) = V4Bits \div 8 /\ ones >= V6Bits - V4Bits
             THEN [ones |-> ones - (V6Bits - V4Bits), bits |-> V4Bits]
             ELSE [ones |-> ones, bits |-> bits]
        x == IF m.bits = V4Bits /\ Len(ip) = V6Bits \div 8
                /\ SubSeq(ip, 1, 12) = v4InV6Prefix
             THEN SubSeq(ip, 13, 16)
             ELSE ip
    IN  IF Len(x) * 8 # m.bits THEN NIL
        ELSE [i \in 1..Len(x) |-> MaskByte(x[i], m.ones, i)]

\* bytes.Compare(a, b) < 0 on two slices of the same length.
BytesLess(a, b) ==
    \E i \in 1..Min(Len(a), Len(b)) :
        /\ a[i] < b[i]
        /\ \A j \in 1..(i - 1) : a[j] = b[j]

\* ------------------------------------------------------------ IPNet

\* An IPNet is [IP, ones, bits]: the address and the mask's Size().
FirstAddr(n) == IPMask(n.IP, n.ones, n.bits)

\* b | (1<<k - 1): the low k bits of the byte b set.
OrLowBits(b, k) == (b \div (2 ^ k)) * (2 ^ k) + ((2 ^ k) - 1)

\* A loop of LastAddr that fills every byte that holds a host bit.
RECURSIVE lastAddrWholeBytes(_, _, _, _)
lastAddrWholeBytes(ret, i, ones, zeros) ==
    IF i > Len(ret) THEN ret
    ELSE IF ones - 8 < 0
         THEN lastAddrWholeBytes([ret EXCEPT ![i] = 255], i + 1, ones - 8, zeros - 8)
         ELSE lastAddrWholeBytes(ret, i + 1, ones - 8, zeros)

\* The loop of LastAddr over ret[i..], ones and zeros being the locals.
RECURSIVE lastAddrLoop(_, _, _, _)
lastAddrLoop(ret, i, ones, zeros) ==
    IF i > Len(ret) THEN ret
    ELSE IF ones - 8 < 0
         THEN IF zeros % 8 = 0
              THEN lastAddrLoop([ret EXCEPT ![i] = 255], i + 1, ones - 8, zeros - 8)
              ELSE lastAddrLoop([ret EXCEPT ![i] = OrLowBits(@, zeros % 8)], i + 1,
                                ones - 8, zeros - (zeros % 8))
         ELSE lastAddrLoop(ret, i + 1, ones - 8, zeros)

\* IPNet.LastAddr(): the masked address, in 4 bytes when it is IPv4, with the
\* host bits set byte by byte.
LastAddr(n) ==
    With(IPMask(n.IP, n.ones, n.bits), LAMBDA m :
        lastAddrLoop(IF isv4(m) THEN To4(m) ELSE m, 1, n.ones, n.bits - n.ones))

ContainsNet(n, n2) ==
    IF isv4(n.IP) # isv4(n2.IP) THEN FALSE
    ELSE /\ n2.ones >= n.ones
         /\ IPEqual(IPMask(n.IP, n.ones, n.bits), IPMask(n2.IP, n.ones, n.bits))

NetEqual(n, n2) == ContainsNet(n, n2) /\ ContainsNet(n2, n)

\* A Less that orders by prefix length alone.
NetLessByLen(n, n2) == n.ones < n2.ones

\* IPNet.Less: both o1 and o2 are read from n, so the length never decides.
NetLess(n, n2) ==
    IF isv4(n.IP) # isv4(n2.IP) THEN isv4(n.IP)
    ELSE LET o1 == n.ones
             o2 == n.ones
         IN  IF o1 < o2 THEN TRUE
             ELSE BytesLess(To16(IPMask(n.IP, n.ones, n.bits)),
                            To16(IPMask(n2.IP, n2.ones, n2.bits)))

\* net.IPNet.Contains(ip), which IPNet embeds.
NetContains(n, ip) ==
    LET nn == IF To4(n.IP) # NIL THEN To4(n.IP) ELSE n.IP
        x  == IF To4(ip) # NIL THEN To4(ip) ELSE ip
    IN  /\ Len(x) = Len(nn)
        /\ \A i \in 1..Len(x) :
              MaskByte(nn[i], n.ones, i) = MaskByte(x[i], n.ones, i)

ishost(n) == n.ones = n.bits

hostToNet(i) ==
    IF isv4(i) THEN [IP |-> i, ones |-> V4Bits, bits |-> V4Bits]
    ELSE [IP |-> i, ones |-> V6Bits, bits |-> V6Bits]

\* ------------------------------------------------------------ heap

\* Go maps are functions; EmptyMap is make(map[...]...).
EmptyMap == [x \in {} |-> NIL]

MapPut(m, k, v) == [x \in (DOMAIN m) \cup {k} |-> IF x = k THEN v ELSE m[x]]

MapDel(m, k) == [x \in (DOMAIN m) \ {k} |-> m[x]]

Range(f) == {f[x] : x \in DOMAIN f}

\* New(name): an empty database.  d.alloc and d.host are the heap: the
\* Allocation and the Host behind each pointer.
New ==
    [Allocs     |-> <<>>,
     Hosts      |-> <<>>,
     hostLookup |-> EmptyMap,
     alloc      |-> EmptyMap,
     host       |-> EmptyMap]

\* A pointer to a newly made Allocation of `network`: one no object has.
NewAllocRef(d, network) ==
    LET k == CHOOSE i \in 0..Cardinality(DOMAIN d.alloc) :
                 /\ <<network, i>> \notin DOMAIN d.alloc
                 /\ \A j \in 0..(i - 1) : <<network, j>> \in DOMAIN d.alloc
    IN  <<network, k>>

\* A pointer to a newly made Host.
NewHostRef(d) ==
    LET k == CHOOSE i \in 1..(Cardinality(DOMAIN d.host) + 1) :
                 /\ <<i>> \notin DOMAIN d.host
                 /\ \A j \in 1..(i - 1) : <<j>> \in DOMAIN d.host
    IN  <<k>>

\* The allocations of the forest: those the root list reaches.
RECURSIVE Under(_, _)
Under(d, s) ==
    IF s = <<>> THEN {}
    ELSE {Head(s)} \cup Under(d, d.alloc[Head(s)].Children) \cup Under(d, Tail(s))

Live(d) == Under(d, d.Allocs)

\* The hosts the program can still reach: those of the host list and those
\* the address index or a host bag of the forest still points to.
Held(d) ==
    Range(d.Hosts) \cup Range(d.hostLookup)
        \cup UNION {Range(d.alloc[a].hosts) : a \in Live(d)}

\* An allocation removed from the forest.  Nothing reads its children, its
\* parent or its host bag again; a host's parents map may still point to it,
\* and then its Net is read.
Removed(net) == [Net |-> net, parent |-> NIL, Children |-> <<>>, hosts |-> EmptyMap]

\* The garbage collector: an object nothing reaches is gone, and of a removed
\* allocation that a host still points to only the Net is kept.
Collect(d) ==
    With(Held(d), LAMBDA H :
    With(Live(d), LAMBDA A :
    With((UNION {Range(d.host[h].parents) : h \in H} \ {NIL}) \ A, LAMBDA dead :
        [d EXCEPT !.alloc = [a \in A \cup dead |->
                                IF a \in A THEN d.alloc[a] ELSE Removed(d.alloc[a].Net)],
                  !.host  = [h \in H |-> d.host[h]]])))

\* ------------------------------------------------------------ lookups

\* A findContainer that stops at the first container and never descends.
findContainerShallow(d, a, n) ==
    IF ~ContainsNet(d.alloc[a].Net, n) THEN NIL ELSE a

RECURSIVE findContainer(_, _, _)
RECURSIVE findFirst(_, _, _)

\* Allocation.findContainer: the deepest allocation under a that contains n.
findContainer(d, a, n) ==
    IF ~ContainsNet(d.alloc[a].Net, n) THEN NIL
    ELSE With(findFirst(d, d.alloc[a].Children, n), LAMBDA child :
             IF child # NIL THEN child ELSE a)

\* The loop over a slice of allocations: the first one with a container.
findFirst(d, s, n) ==
    IF s = <<>> THEN NIL
    ELSE With(findContainer(d, Head(s), n), LAMBDA ret :
             IF ret # NIL THEN ret ELSE findFirst(d, Tail(s), n))

\* A FindAllocation that returns only an allocation of the CIDR itself.
FindAllocationSame(d, n, exact) ==
    With(findFirst(d, d.Allocs, n), LAMBDA ret :
        IF ret # NIL /\ ~NetEqual(d.alloc[ret].Net, n) THEN NIL ELSE ret)

FindAllocation(d, n, exact) ==
    With(findFirst(d, d.Allocs, n), LAMBDA ret :
        IF ret # NIL /\ exact /\ ~NetEqual(d.alloc[ret].Net, n) THEN NIL ELSE ret)

FindHost(d, addr) ==
    IF IPString(addr) \in DOMAIN d.hostLookup THEN d.hostLookup[IPString(addr)] ELSE NIL

\* ------------------------------------------------------------ sort.Sort

\* A sort step that leaves the new element where append put it.
insertLeftNone(d, s, x) == Append(s, x)

\* sort.Sort(allocSort(s)): on slices this short the library runs an
\* insertion sort, each element moved left while it is Less than the one
\* before it.
RECURSIVE insertLeft(_, _, _)
insertLeft(d, s, x) ==
    IF s = <<>> THEN <<x>>
    ELSE IF NetLess(d.alloc[x].Net, d.alloc[s[Len(s)]].Net)
         THEN Append(insertLeft(d, SubSeq(s, 1, Len(s) - 1), x), s[Len(s)])
         ELSE Append(s, x)

RECURSIVE sortAllocs(_, _)
sortAllocs(d, s) ==
    IF Len(s) <= 1 THEN s
    ELSE insertLeft(d, sortAllocs(d, SubSeq(s, 1, Len(s) - 1)), s[Len(s)])

\* The elements of s that are in keep, in order.
RECURSIVE SelectRefs(_, _)
SelectRefs(s, keep) ==
    IF s = <<>> THEN <<>>
    ELSE IF Head(s) \in keep THEN <<Head(s)>> \o SelectRefs(Tail(s), keep)
         ELSE SelectRefs(Tail(s), keep)

\* ------------------------------------------------------------ allocations

\* An addChildren that adopts nothing.
addChildrenNone(d, alloc, candidates) == [d |-> d, ret |-> candidates]

\* a.parent = p for every allocation a of the set as.
SetParents(d, as, p) ==
    [d EXCEPT !.alloc = [x \in DOMAIN d.alloc |->
        IF x \in as THEN [d.alloc[x] EXCEPT !.parent = p] ELSE d.alloc[x]]]

\* addChildren(alloc, candidates): the candidates alloc contains become its
\* children; the others are returned.
addChildren(d, alloc, candidates) ==
    With({a \in Range(candidates) : ContainsNet(d.alloc[alloc].Net, d.alloc[a].Net)},
         LAMBDA viable :
    With(SetParents(d, viable, alloc), LAMBDA d1 :
        [d   |-> [d1 EXCEPT !.alloc[alloc].Children =
                     sortAllocs(d1, d.alloc[alloc].Children \o SelectRefs(candidates, viable))],
         ret |-> SelectRefs(candidates, Range(candidates) \ viable)]))

\* The host addresses AddAllocation moves to a new root: those of registered
\* hosts that have no parent yet and lie in the new allocation.
OrphansIn(d, network) ==
    {p \in UNION {{<<h, ip>> : ip \in DOMAIN d.host[h].parents} : h \in Range(d.Hosts)} :
        /\ d.host[p[1]].parents[p[2]] = NIL
        /\ NetContains(network, ParseIP(p[2]))}

\* host.parents[ip] = target, for every entry ip -> host of m.
SetHostParents(d, m, target) ==
    [d EXCEPT !.host = [h \in DOMAIN d.host |->
        [d.host[h] EXCEPT !.parents =
            [ip \in (DOMAIN d.host[h].parents) \cup {x \in DOMAIN m : m[x] = h} |->
                IF ip \in DOMAIN m /\ m[ip] = h THEN target ELSE d.host[h].parents[ip]]]]]

\* The entries of parent.hosts AddAllocation moves to a new child.
HostsIn(d, parent, network) ==
    [ip \in {x \in DOMAIN d.alloc[parent].hosts : NetContains(network, ParseIP(x))} |->
        d.alloc[parent].hosts[ip]]

\* The loop of AddAllocation over d.Hosts in the root branch: mv holds the
\* <<host, address>> pairs that move to alloc.
adoptOrphans(d, alloc, mv) ==
    [d EXCEPT
        !.alloc[alloc].hosts =
            [ip \in {p[2] : p \in mv} |-> CHOOSE h \in Range(d.Hosts) : <<h, ip>> \in mv],
        !.host = [h \in DOMAIN d.host |->
            [d.host[h] EXCEPT !.parents =
                [ip \in DOMAIN d.host[h].parents |->
                    IF <<h, ip>> \in mv THEN alloc ELSE d.host[h].parents[ip]]]]]

\* An AddAllocation that leaves every host of parent.hosts where it is.
moveHostsNone(d, parent, alloc, moved) == d

\* The loop of AddAllocation over parent.hosts in the other branch: the
\* entries `moved` leave parent.hosts for alloc.hosts.
moveHosts(d, parent, alloc, moved) ==
    [SetHostParents(d, moved, alloc) EXCEPT
        !.alloc[parent].hosts = [ip \in (DOMAIN @) \ (DOMAIN moved) |-> @[ip]],
        !.alloc[alloc].hosts  = moved]

\* AddAllocation from the construction of alloc on, parent being what
\* d.FindAllocation(alloc.Net, false) returned: the new allocation goes
\* among the roots or under parent, adopts the siblings it contains and
\* takes over host addresses.
insertAllocation(d, network, parent) ==
    With(NewAllocRef(d, network), LAMBDA alloc :
    With([d EXCEPT !.alloc = MapPut(@, alloc,
             [Net |-> network, parent |-> NIL, Children |-> <<>>, hosts |-> EmptyMap])],
         LAMBDA d0 :
        IF parent = NIL THEN
            With(addChildren(d0, alloc, d0.Allocs), LAMBDA r :
            With([r.d EXCEPT !.Allocs = sortAllocs(r.d, Append(r.ret, alloc))], LAMBDA d1 :
                Collect(adoptOrphans(d1, alloc, OrphansIn(d1, network)))))
        ELSE
            With(addChildren(d0, alloc, d0.alloc[parent].Children), LAMBDA r :
            With([r.d EXCEPT !.alloc[parent].Children = sortAllocs(r.d, Append(r.ret, alloc)),
                             !.alloc[alloc].parent = parent], LAMBDA d1 :
                Collect(moveHosts(d1, parent, alloc, HostsIn(d1, parent, network)))))))

\* An AddAllocation that looks for an allocation of the same CIDR only once
\* the new allocation is in place.
AddAllocationLateCheck(d, network) ==
    IF ishost(network) THEN [d |-> d, err |-> "host address"]
    ELSE With(FindAllocation(d, network, FALSE), LAMBDA parent :
             [d   |-> insertAllocation(d, network, parent),
              err |-> IF parent # NIL /\ NetEqual(d.alloc[parent].Net, network)
                      THEN "already allocated" ELSE OK])

\* DB.AddAllocation(name, network, attrs).  The name and the attributes are
\* stored on the new allocation and read by nothing here.
AddAllocation(d, network) ==
    IF ishost(network) THEN [d |-> d, err |-> "host address"]
    ELSE With(FindAllocation(d, network, FALSE), LAMBDA parent :
             IF parent # NIL /\ NetEqual(d.alloc[parent].Net, network)
             THEN [d |-> d, err |-> "already allocated"]
             ELSE [d |-> insertAllocation(d, network, parent), err |-> OK])

\* removeAlloc(as, a): as without a.
removeAlloc(as, a) == SelectRefs(as, Range(as) \ {a})

\* The slice RemoveAllocation leaves where c was: siblings is that slice
\* without c; with reparentChildren the children of c are appended, all of
\* them given the parent p, and the slice is sorted.
reparented(d, siblings, c, p, reparentChildren) ==
    IF ~reparentChildren THEN [d |-> d, s |-> siblings]
    ELSE With(SetParents(d, Range(siblings) \cup Range(d.alloc[c].Children), p), LAMBDA dp :
             [d |-> dp, s |-> sortAllocs(dp, siblings \o d.alloc[c].Children)])

\* DB.RemoveAllocation(a, reparentChildren).
RemoveAllocation(d, a, reparentChildren) ==
    With(FindAllocation(d, d.alloc[a].Net, TRUE), LAMBDA c :
        IF c = NIL THEN [d |-> d, err |-> "not part of this DB"]
        ELSE
        With(d.alloc[a].parent, LAMBDA p :
        With(IF p = NIL
             THEN With(reparented(d, removeAlloc(d.Allocs, c), c, NIL, reparentChildren),
                       LAMBDA r :
                      SetHostParents([r.d EXCEPT !.Allocs = r.s], d.alloc[c].hosts, NIL))
             ELSE With(reparented(d, removeAlloc(d.alloc[p].Children, c), c, p, reparentChildren),
                       LAMBDA r :
                      [SetHostParents([r.d EXCEPT !.alloc[p].Children = r.s], d.alloc[c].hosts, p)
                          EXCEPT !.alloc[p].hosts =
                              [ip \in (DOMAIN @) \cup (DOMAIN d.alloc[c].hosts) |->
                                  IF ip \in DOMAIN d.alloc[c].hosts
                                  THEN d.alloc[c].hosts[ip] ELSE @[ip]]]),
             LAMBDA d1 :
            [d   |-> Collect([d1 EXCEPT !.alloc[a].Children = <<>>, !.alloc[a].parent = NIL]),
             err |-> OK])))

\* ------------------------------------------------------------ hosts

\* One turn of AddHost's second loop, and all of AddHostAddr but the append:
\* the address a of host h goes into the host bag of the allocation alloc
\* found for it, into h.parents and into the address index.
registerAddr(d, h, a, alloc) ==
    [(IF alloc # NIL THEN [d EXCEPT !.alloc[alloc].hosts = MapPut(@, IPString(a), h)] ELSE d)
        EXCEPT !.hostLookup = MapPut(@, IPString(a), h),
               !.host[h].parents = MapPut(@, IPString(a), alloc)]

\* The second loop of AddHost, over addrs[i..].
RECURSIVE registerAddrs(_, _, _, _)
registerAddrs(d, h, addrs, i) ==
    IF i > Len(addrs) THEN d
    ELSE registerAddrs(
             registerAddr(d, h, addrs[i], FindAllocation(d, hostToNet(addrs[i]), FALSE)),
             h, addrs, i + 1)

\* An AddHost that checks each address just before it registers it, and stops
\* at the first one in use.
RECURSIVE registerUntilTaken(_, _, _, _)
registerUntilTaken(d, h, addrs, i) ==
    IF i > Len(addrs) THEN [d |-> [d EXCEPT !.Hosts = Append(@, h)], err |-> OK]
    ELSE IF IPString(addrs[i]) \in DOMAIN d.hostLookup
         THEN [d |-> d, err |-> "address in use"]
         ELSE registerUntilTaken(registerAddrs(d, h, <<addrs[i]>>, 1), h, addrs, i + 1)

AddHostInterleaved(d, addrs) ==
    IF Len(addrs) = 0 THEN [d |-> d, err |-> "no address"]
    ELSE With(NewHostRef(d), LAMBDA h :
         With(registerUntilTaken(
                  [d EXCEPT !.host = MapPut(@, h, [Addrs |-> addrs, parents |-> EmptyMap])],
                  h, addrs, 1), LAMBDA r :
             [d |-> Collect(r.d), err |-> r.err]))

\* DB.AddHost(name, addrs, attrs).
AddHost(d, addrs) ==
    IF Len(addrs) = 0 THEN [d |-> d, err |-> "no address"]
    ELSE IF \E i \in 1..Len(addrs) : IPString(addrs[i]) \in DOMAIN d.hostLookup
    THEN [d |-> d, err |-> "address in use"]
    ELSE With(NewHostRef(d), LAMBDA h :
         With(registerAddrs(
                  [d EXCEPT !.host = MapPut(@, h, [Addrs |-> addrs, parents |-> EmptyMap])],
                  h, addrs, 1), LAMBDA d1 :
             [d |-> Collect([d1 EXCEPT !.Hosts = Append(@, h)]), err |-> OK]))

\* delete(alloc.hosts, ip) for every ip -> alloc of parents with alloc # nil.
DropFromBags(d, parents) ==
    [d EXCEPT !.alloc = [a \in DOMAIN d.alloc |->
        [d.alloc[a] EXCEPT !.hosts =
            [ip \in {x \in DOMAIN @ : ~(x \in DOMAIN parents /\ parents[x] = a)} |-> @[ip]]]]]

\* A RemoveHost that takes the host off the host list and out of the host
\* bags, and leaves the address index alone.
RemoveHostKeepIndex(d, h) ==
    [d   |-> Collect([DropFromBags(d, d.host[h].parents) EXCEPT
                  !.host[h].parents = NIL,
                  !.Hosts = SelectRefs(@, Range(@) \ {h})]),
     err |-> OK]

\* DB.RemoveHost(h).
RemoveHost(d, h) ==
    IF \E i \in 1..Len(d.host[h].Addrs) : FindHost(d, d.host[h].Addrs[i]) # h
    THEN [d |-> d, err |-> "not part of this DB"]
    ELSE [d   |-> Collect([DropFromBags(d, d.host[h].parents) EXCEPT
                      !.hostLookup = [ip \in (DOMAIN @) \ (DOMAIN d.host[h].parents) |-> @[ip]],
                      !.host[h].parents = NIL,
                      !.Hosts = SelectRefs(@, Range(@) \ {h})]),
          err |-> OK]

\* An AddHostAddr that does not look for another owner of the address.
AddHostAddrUnchecked(d, h, a) ==
    [d   |-> Collect([registerAddr(d, h, a, FindAllocation(d, hostToNet(a), FALSE))
                         EXCEPT !.host[h].Addrs = Append(@, a)]),
     err |-> OK]

\* DB.AddHostAddr(h, a).
AddHostAddr(d, h, a) ==
    IF FindHost(d, a) # NIL THEN [d |-> d, err |-> "address in use"]
    ELSE [d   |-> Collect([registerAddr(d, h, a, FindAllocation(d, hostToNet(a), FALSE))
                              EXCEPT !.host[h].Addrs = Append(@, a)]),
          err |-> OK]

\* The addresses of s that are not Equal to a, in order.
RECURSIVE addrsWithout(_, _)
addrsWithout(s, a) ==
    IF s = <<>> THEN <<>>
    ELSE IF IPEqual(Head(s), a) THEN addrsWithout(Tail(s), a)
         ELSE <<Head(s)>> \o addrsWithout(Tail(s), a)

\* DB.RmHostAddr(h, a).
RmHostAddr(d, h, a) ==
    IF IPString(a) \notin DOMAIN d.host[h].parents
    THEN [d |-> d, err |-> "host does not have the address"]
    ELSE With(d.host[h].parents[IPString(a)], LAMBDA alloc :
             [d   |-> Collect(
                    [(IF alloc # NIL
                      THEN [d EXCEPT !.alloc[alloc].hosts = MapDel(@, IPString(a))]
                      ELSE d)
                        EXCEPT !.host[h].parents = MapDel(@, IPString(a)),
                               !.hostLookup = MapDel(@, IPString(a)),
                               !.host[h].Addrs = addrsWithout(@, a)]),
              err |-> OK])

\* ------------------------------------------------------------ inputs

\* net.ParseCIDR on an IPv4 CIDR: the address masked, and the mask.
ParseCIDR4(a, b, c, e, ones) ==
    [IP |-> IPMask(<<a, b, c, e>>, ones, V4Bits), ones |-> ones, bits |-> V4Bits]

\* net.ParseCIDR on an IPv6 CIDR, the address given by its 16 bytes.
ParseCIDR6(ip, ones) ==
    [IP |-> IPMask(ip, ones, V6Bits), ones |-> ones, bits |-> V6Bits]

\* net.ParseCIDR on the text of a prefix, the text being NetString's: a
\* dotted address with a length of at most 32 is IPv4, anything else IPv6.
ParseCIDR(s) ==
    IF To4(s[1]) # NIL /\ s[2] <= V4Bits
    THEN [IP |-> IPMask(To4(s[1]), s[2], V4Bits), ones |-> s[2], bits |-> V4Bits]
    ELSE [IP |-> IPMask(s[1], s[2], V6Bits), ones |-> s[2], bits |-> V6Bits]

\* net.ParseIP on a dotted IPv4 address.
ParseIP4(a, b, c, e) == v4InV6Prefix \o <<a, b, c, e>>

\* 2001:db8::<last byte>
Doc6(last) == <<32, 1, 13, 184, 0, 0, 0, 0, 0, 0, 0, 0, 0, 0, 0, last>>

\* The CIDRs the callers pass while hosts are registered: the chain
\* /22 > /26 > /28 and one host address (which no add accepts).
Nets ==
    {ParseCIDR4(192, 168, 144, 0, 22),
     ParseCIDR4(192, 168, 144, 0, 26),
     ParseCIDR4(192, 168, 144, 0, 28),
     ParseCIDR4(192, 168, 144, 1, 32)}

\* The CIDRs of the forest-only runs: a chain, siblings at two levels (two of
\* them of one length), one IPv6 prefix and one host address.
TreeNets ==
    {ParseCIDR4(192, 168, 144, 0, 22),
     ParseCIDR4(192, 168, 144, 0, 26),
     ParseCIDR4(192, 168, 144, 0, 28),
     ParseCIDR4(192, 168, 144, 32, 28),
     ParseCIDR4(192, 168, 144, 64, 27),
     ParseCIDR4(192, 168, 144, 128, 25),
     ParseCIDR6(Doc6(0), 32),
     ParseCIDR4(192, 168, 144, 1, 32)}

\* The host addresses the callers pass: one inside the /28, one in the /22 alone.
IPs ==
    {ParseIP4(192, 168, 144, 1),
     ParseIP4(192, 168, 144, 129)}

\* The address lists the callers pass: any list of at most MaxAddrs addresses.
AddrLists == UNION {[1..n -> IPs] : n \in 0..MaxAddrs}

\* ------------------------------------------------------------ the test's view

\* mkTextTree(allocs, indent) of the database test: one line per allocation,
\* the children indented under it.  The text is modelled by the nesting it
\* prints.
RECURSIVE mkTextTree(_, _)
mkTextTree(d, allocs) ==
    IF allocs = <<>> THEN <<>>
    ELSE <<[Net      |-> d.alloc[Head(allocs)].Net,
            Children |-> mkTextTree(d, d.alloc[Head(allocs)].Children)]>>
         \o mkTextTree(d, Tail(allocs))

\* Five of the ranges of TestAllocateDeallocate, in the order the golden
\* database gets them: a chain of three, siblings under the /22, siblings of
\* one length under the /26.
ranges ==
    <<ParseCIDR4(192, 168, 144, 0, 22),
      ParseCIDR4(192, 168, 144, 0, 26),
      ParseCIDR4(192, 168, 144, 0, 28),
      ParseCIDR4(192, 168, 144, 32, 28),
      ParseCIDR4(192, 168, 144, 128, 25)>>

\* ============================================================ database, v2
\* The later database (package database of src/unnamed/part_001): subnets in
\* maps keyed by CIDR text, a host's parent subnet looked up on demand,
\* domains with a zone serial.  A map cidr -> *Subnet is modelled by the set
\* of its Subnets, each one behind the pointer NetString(Net); d.subnet and
\* d.host are the heap.

\* net.IPNet.String(): the address as it stands, a slash, the mask length.
NetString(n) == <<IPString(n.IP), n.ones>>

\* IPNet.Equal of the later database: the same text.
NetStringEqual(n, n2) == NetString(n) = NetString(n2)

\* IPNet.ContainsIPNet.
ContainsIPNet(n, n2) ==
    IF isv4(n.IP) # isv4(n2.IP) THEN FALSE
    ELSE /\ n2.ones >= n.ones
         /\ IPEqual(IPMask(n.IP, n.ones, n.bits), IPMask(n2.IP, n.ones, n.bits))

\* New() of the later database.
NewDB ==
    [Subnets  |-> {},
     Hosts    |-> <<>>,
     Domains  |-> EmptyMap,
     ipToHost |-> EmptyMap,
     subnet   |-> EmptyMap,
     host     |-> EmptyMap]

\* The subnets the root map reaches.
RECURSIVE SubnetsUnder(_, _)
SubnetsUnder(d, S) ==
    S \cup UNION {SubnetsUnder(d, d.subnet[s].Subnets) : s \in S}

\* The garbage collector of the later database.
CollectDB(d) ==
    LET S == SubnetsUnder(d, d.Subnets)
        H == Range(d.Hosts) \cup Range(d.ipToHost)
    IN  [d EXCEPT !.subnet = [s \in S |-> d.subnet[s]],
                  !.host   = [h \in H |-> d.host[h]]]

\* Subnet.findSubnet: the deepest subnet under s that contains n.  The loop
\* ranges over a map; the children of a subnet never overlap, so at most one
\* of them returns a subnet.
RECURSIVE findSubnet(_, _, _)
findSubnet(d, s, n) ==
    IF ~ContainsIPNet(d.subnet[s].Net, n) THEN NIL
    ELSE LET found == {findSubnet(d, c, n) : c \in d.subnet[s].Subnets} \ {NIL}
         IN  IF found # {} THEN CHOOSE r \in found : TRUE ELSE s

\* DB.Subnet(net, exact).
DBSubnet(d, n, exact) ==
    LET found == {findSubnet(d, s, n) : s \in d.Subnets} \ {NIL}
    IN  IF found = {} THEN NIL
        ELSE LET ret == CHOOSE r \in found : TRUE
             IN  IF exact /\ ~NetStringEqual(d.subnet[ret].Net, n) THEN NIL ELSE ret

\* DB.Host(ip).
DBHost(d, ip) ==
    IF IPString(ip) \in DOMAIN d.ipToHost THEN d.ipToHost[IPString(ip)] ELSE NIL

\* DB.Domain(name).
DBDomain(d, name) ==
    IF name \in DOMAIN d.Domains THEN d.Domains[name] ELSE NIL

\* DB.AddSubnet(name, net, attrs).
AddSubnet(d, network, attrs) ==
    IF network.ones = network.bits THEN [d |-> d, err |-> "host address"]
    ELSE
    LET sub    == NetString(network)
        parent == DBSubnet(d, network, FALSE)
    IN  IF parent # NIL /\ NetStringEqual(d.subnet[parent].Net, network)
        THEN [d |-> d, err |-> "already allocated"]
        ELSE
        LET m     == IF parent # NIL THEN d.subnet[parent].Subnets ELSE d.Subnets
            moved == {k \in m : ContainsIPNet(network, d.subnet[k].Net)}
            heap  == [k \in (DOMAIN d.subnet) \cup {sub} |->
                         IF k = sub
                         THEN [Net |-> network, Attrs |-> attrs, Subnets |-> moved, Parent |-> parent]
                         ELSE IF k \in moved THEN [d.subnet[k] EXCEPT !.Parent = sub]
                         ELSE IF k = parent THEN [d.subnet[k] EXCEPT !.Subnets = (m \ moved) \cup {sub}]
                         ELSE d.subnet[k]]
        IN  [d   |-> [d EXCEPT !.subnet  = heap,
                               !.Subnets = IF parent = NIL THEN (m \ moved) \cup {sub} ELSE @],
             err |-> OK]

\* Subnet.Delete(recursive).
SubnetDelete(d, s, recursive) ==
    LET p    == d.subnet[s].Parent
        m    == IF p # NIL THEN d.subnet[p].Subnets ELSE d.Subnets
        kids == IF recursive THEN {} ELSE d.subnet[s].Subnets
        m2   == (m \ {s}) \cup kids
        heap == [k \in DOMAIN d.subnet |->
                    IF k \in kids THEN [d.subnet[k] EXCEPT !.Parent = p]
                    ELSE IF k = p THEN [d.subnet[k] EXCEPT !.Subnets = m2]
                    ELSE d.subnet[k]]
    IN  CollectDB([d EXCEPT !.subnet = heap, !.Subnets = IF p = NIL THEN m2 ELSE @])

\* Host.AddAddress(addr).
AddAddress(d, h, addr) ==
    IF IPString(addr) \in DOMAIN d.ipToHost THEN [d |-> d, err |-> "address in use"]
    ELSE [d   |-> [d EXCEPT !.host[h].Addrs = MapPut(@, IPString(addr), addr),
                            !.ipToHost = MapPut(@, IPString(addr), h)],
          err |-> OK]

\* The loop of AddHost over addrs[i..]; what AddAddress returns is dropped.
RECURSIVE addAddresses(_, _, _, _)
addAddresses(d, h, addrs, i) ==
    IF i > Len(addrs) THEN d
    ELSE addAddresses(AddAddress(d, h, addrs[i]).d, h, addrs, i + 1)

\* DB.AddHost(name, addrs, attrs) of the later database.
AddHost2(d, addrs, attrs) ==
    IF \E i \in 1..Len(addrs) : IPString(addrs[i]) \in DOMAIN d.ipToHost
    THEN [d |-> d, err |-> "address in use"]
    ELSE LET h  == NewHostRef(d)
             d0 == [d EXCEPT !.host  = MapPut(@, h, [Addrs |-> EmptyMap, Attrs |-> attrs]),
                             !.Hosts = Append(@, h)]
         IN  [d |-> addAddresses(d0, h, addrs, 1), err |-> OK]

\* Host.Delete().
HostDelete(d, h) ==
    CollectDB([d EXCEPT !.ipToHost = [k \in (DOMAIN @) \ (DOMAIN d.host[h].Addrs) |-> @[k]],
                        !.Hosts    = SelectRefs(@, Range(@) \ {h})])

\* Host.Parent(ip).
HostParent(d, h, ip) ==
    IF IPString(ip) \notin DOMAIN d.host[h].Addrs THEN NIL
    ELSE LET maskLen == IF isv4(ip) THEN V4Bits ELSE V6Bits
         IN  DBSubnet(d, [IP |-> ip, ones |-> maskLen, bits |-> maskLen], FALSE)

\* server.Host, PUT: the host at ip is deleted, the replacement is added,
\* and the handler goes on to Save whether or not AddHost failed.
HostPut(d, ip, addrs, attrs) ==
    With(DBHost(d, ip), LAMBDA host :
        IF host = NIL THEN [d |-> d, err |-> "does not exist"]
        ELSE AddHost2(HostDelete(d, host), addrs, attrs))

\* ------------------------------------------------------------ domains

\* The counter at which ZoneSerial.Inc panics.
SerialOverflow == 99

\* The zero ZoneSerial: the zero time.Time, day 0 here, and counter 0.
ZeroSerial == [date |-> 0, inc |-> 0]

\* ZoneSerial.Inc(), now being time.Now().UTC() truncated to the day.
ZoneSerialInc(z, now) ==
    IF z.date = now
    THEN IF z.inc = SerialOverflow THEN [z |-> z, panic |-> TRUE]
         ELSE [z |-> [z EXCEPT !.inc = @ + 1], panic |-> FALSE]
    ELSE [z |-> [date |-> now, inc |-> 0], panic |-> FALSE]

\* ZoneSerial.Before(oz).
ZoneSerialBefore(z, oz) ==
    IF z.date < oz.date THEN TRUE ELSE z.inc < oz.inc

\* ZoneSerial.String(): YYYYMMDDxx, modelled by the day and the counter.
SerialString(z) == <<z.date, z.inc>>

\* The reverse zones a domain can be named after: net.ParseCIDR accepts the
\* name of each and no other name here.
ReverseZones ==
    [name \in {<<"192.168.144.0/24">>, <<"192.168.144.0/28">>} |->
        IF name = <<"192.168.144.0/24">> THEN ParseCIDR4(192, 168, 144, 0, 24)
        ELSE ParseCIDR4(192, 168, 144, 0, 28)]

\* net.ParseCIDR(domain.Name).
ParseCIDRName(name) ==
    IF name \in DOMAIN ReverseZones
    THEN [net |-> ReverseZones[name], err |-> OK]
    ELSE [net |-> NIL, err |-> "invalid CIDR address"]

\* DB.AddDomain(name, ns, email, ...); a DNS name is the sequence of its
\* labels, and <<>> the empty string.  The four durations are fixed at
\* their defaults and take no part in what follows.
AddDomain(d, name, ns, email) ==
    IF name \in DOMAIN d.Domains THEN [d |-> d, err |-> "domain exists"]
    ELSE IF ParseCIDRName(name).err = OK /\ (ns = <<>> \/ email = <<>>)
    THEN [d |-> d, err |-> "must explicitly specify for ARPA domain"]
    ELSE [d   |-> [d EXCEPT !.Domains = MapPut(@, name,
                      [Name      |-> name,
                       PrimaryNS |-> IF ns = <<>> THEN <<"ns1">> \o name ELSE ns,
                       Email     |-> IF email = <<>> THEN <<"hostmaster">> \o name ELSE email,
                       Serial    |-> ZeroSerial,
                       LastHash  |-> <<>>,
                       NS        |-> <<>>,
                       RR        |-> <<>>])],
          err |-> OK]

\* ------------------------------------------------------------ zone export

\* One line of a zone file: the record type (or the directive), the owner
\* name, a target name, an address and a serial, the parts a line does not
\* have left empty.  A zone text is the sequence of its lines, which
\* strings.Join(ret, "\n") turns into one string.
Line(rr, owner, target, addr) == [rr |-> rr, owner |-> owner, target |-> target, addr |-> addr]

BlankLine == Line("", <<>>, <<>>, <<>>)

\* Domain.SOA().
SOA(domain) ==
    Line("SOA", domain.PrimaryNS, domain.Email, SerialString(domain.Serial))

\* zoneHash(zone): SHA-1 in base64, taken to be free of collisions; the hash
\* of no text at all is never a hash of a zone.
zoneHash(zone) == <<zone>>

\* rrtype(ip).
rrtype(ip) == IF To4(ip) # NIL THEN "A" ELSE "AAAA"

\* The decimal digits of a byte, as character codes.
Digits(n) ==
    IF n < 10 THEN <<48 + n>>
    ELSE IF n < 100 THEN <<48 + (n \div 10), 48 + (n % 10)>>
    ELSE <<48 + (n \div 100), 48 + ((n \div 10) % 10), 48 + (n % 10)>>

\* The dotted text of an IPv4 address, as character codes.  The text of an
\* IPv6 address is not modelled: its bytes stand for it.
IPText(ip) ==
    IF To4(ip) = NIL THEN ip
    ELSE LET b == To4(ip)
         IN  Digits(b[1]) \o <<46>> \o Digits(b[2]) \o <<46>> \o Digits(b[3]) \o <<46>> \o Digits(b[4])

\* a < b for strings, as sort.Strings orders them.
StringLess(a, b) ==
    \/ \E i \in 1..Min(Len(a), Len(b)) :
          /\ a[i] < b[i]
          /\ \A j \in 1..(i - 1) : a[j] = b[j]
    \/ /\ Len(a) < Len(b)
       /\ \A j \in 1..Len(a) : a[j] = b[j]

\* sortedAddrs(host): the host's addresses in the order of their texts.
sortedAddrs(d, h) ==
    LET A == d.host[h].Addrs
        K == DOMAIN A
    IN  IF K = {} THEN <<>>
        ELSE CHOOSE s \in [1..Cardinality(K) -> Range(A)] :
                 \A i, j \in 1..Cardinality(K) :
                     i < j => StringLess(IPText(s[i]), IPText(s[j]))

\* subnetDomain(subnet): the "domain" attribute of the nearest subnet that
\* has one, going up.
RECURSIVE subnetDomain(_, _)
subnetDomain(d, subnet) ==
    IF subnet = NIL THEN <<>>
    ELSE IF d.subnet[subnet].Attrs.domain # <<>> THEN d.subnet[subnet].Attrs.domain
    ELSE subnetDomain(d, d.subnet[subnet].Parent)

\* ipDomain(host, ip).
ipDomain(d, h, ip) ==
    IF d.host[h].Attrs.domain # <<>> THEN d.host[h].Attrs.domain
    ELSE subnetDomain(d, HostParent(d, h, ip))

\* strings.HasSuffix(fqdn, "." + name) and strings.TrimSuffix, on label
\* sequences.
HasSuffix(fqdn, name) ==
    /\ Len(fqdn) > Len(name)
    /\ SubSeq(fqdn, Len(fqdn) - Len(name) + 1, Len(fqdn)) = name

TrimSuffix(fqdn, name) ==
    IF HasSuffix(fqdn, name) THEN SubSeq(fqdn, 1, Len(fqdn) - Len(name)) ELSE fqdn

\* The loops of exportDirect over sortedAddrs(host): one address line for
\* each address, or with byDomain only for each address whose ipDomain is
\* the domain exported.
RECURSIVE addrLines(_, _, _, _, _, _)
addrLines(d, h, hostname, addrs, byDomain, name) ==
    IF addrs = <<>> THEN <<>>
    ELSE LET addrDomain == ipDomain(d, h, Head(addrs))
         IN  (IF byDomain /\ (addrDomain = <<>> \/ addrDomain # name)
              THEN <<>>
              ELSE <<Line(rrtype(Head(addrs)), hostname, <<>>, To16(Head(addrs)))>>)
             \o addrLines(d, h, hostname, Tail(addrs), byDomain, name)

\* One CNAME line for each name of the "cname" attribute.
cnameLines(cnames, hostname) ==
    [i \in 1..Len(cnames) |-> Line("CNAME", cnames[i], hostname, <<>>)]

\* The body of exportDirect's loop over db.Hosts, for one host.
hostLines(d, h, domain) ==
    LET attrs == d.host[h].Attrs
    IN  IF attrs.fqdn # <<>>
        THEN IF ~HasSuffix(attrs.fqdn, domain.Name) THEN <<>>
             ELSE LET hostname == TrimSuffix(attrs.fqdn, domain.Name)
                  IN  addrLines(d, h, hostname, sortedAddrs(d, h), FALSE, domain.Name)
                          \o cnameLines(attrs.cname, hostname)
        ELSE IF attrs.hostname = <<>> THEN <<>>
             ELSE addrLines(d, h, attrs.hostname, sortedAddrs(d, h), TRUE, domain.Name)
                      \o cnameLines(attrs.cname, attrs.hostname)

RECURSIVE allHostLines(_, _, _)
allHostLines(d, hosts, domain) ==
    IF hosts = <<>> THEN <<>>
    ELSE hostLines(d, Head(hosts), domain) \o allHostLines(d, Tail(hosts), domain)

\* strings.Replace(pattern, "$", n, -1), the pattern a sequence of pieces.
ReplaceDollar(pattern, n) ==
    [i \in 1..Len(pattern) |-> IF pattern[i] = "$" THEN ToString(n) ELSE pattern[i]]

\* A loop of walkDirect that emits a record for every address, owned or not.
RECURSIVE autogenLinesAll(_, _, _, _, _)
autogenLinesAll(d, ip, i, lastAddr, pattern) ==
    IF i > lastAddr THEN <<>>
    ELSE <<Line("A", ReplaceDollar(pattern, i), <<>>, To16([ip EXCEPT ![4] = i]))>>
         \o autogenLinesAll(d, ip, i + 1, lastAddr, pattern)

\* The loop of walkDirect from address i to lastAddr: one A record for each
\* address no host owns.
RECURSIVE autogenLines(_, _, _, _, _)
autogenLines(d, ip, i, lastAddr, pattern) ==
    IF i > lastAddr THEN <<>>
    ELSE LET a == [ip EXCEPT ![4] = i]
         IN  (IF DBHost(d, a) = NIL
              THEN <<Line("A", ReplaceDollar(pattern, i), <<>>, To16(a))>>
              ELSE <<>>)
             \o autogenLines(d, ip, i + 1, lastAddr, pattern)

\* walkDirect(db, subnet, domain), and the loops over a map of subnets that
\* call it.  A range over a map takes the keys in any order, so each is the
\* set of the line sequences a run can produce.
RECURSIVE walkDirect(_, _, _)
RECURSIVE walkSubnets(_, _, _)
walkDirect(d, subnet, domain) ==
    LET s     == d.subnet[subnet]
        zeros == s.Net.bits - s.Net.ones
    IN  IF To4(s.Net.IP) = NIL THEN {<<>>}
        ELSE IF s.Attrs.pattern = <<>> \/ subnetDomain(d, subnet) # domain.Name \/ zeros > 8
        THEN walkSubnets(d, s.Subnets, domain)
        ELSE LET ip       == s.Net.IP
                 lastAddr == (ip[4] \div (2 ^ zeros)) * (2 ^ zeros) + ((2 ^ zeros) - 1)
             IN  {<<BlankLine>> \o autogenLines(d, ip, ip[4], lastAddr, s.Attrs.pattern)}

walkSubnets(d, S, domain) ==
    IF S = {} THEN {<<>>}
    ELSE UNION {{a \o b : a \in walkDirect(d, s, domain),
                          b \in walkSubnets(d, S \ {s}, domain)} : s \in S}

\* exportDirect(db, domain): the zone texts a run can return.
exportDirect(d, domain) ==
    LET head == <<Line("$ORIGIN", domain.Name, <<>>, <<>>),
                  Line("$TTL 600", <<>>, <<>>, <<>>),
                  SOA(domain),
                  BlankLine>>
        ns   == [i \in 1..Len(domain.NS) |-> Line("NS", <<>>, domain.NS[i], <<>>)]
               \o (IF Len(domain.NS) > 0 THEN <<BlankLine>> ELSE <<>>)
        rr   == domain.RR \o (IF Len(domain.RR) > 0 THEN <<BlankLine>> ELSE <<>>)
    IN  {[zone |-> head \o ns \o rr \o allHostLines(d, d.Hosts, domain) \o w, err |-> OK] :
            w \in walkSubnets(d, d.Subnets, domain)}

HexDigit == <<"0", "1", "2", "3", "4", "5", "6", "7", "8", "9", "a", "b", "c", "d", "e", "f">>

\* strconv.FormatInt(n, 16).
RECURSIVE FormatHex(_)
FormatHex(n) ==
    IF n < 16 THEN HexDigit[n + 1]
    ELSE FormatHex(n \div 16) \o HexDigit[(n % 16) + 1]

\* The loops of arpaZone and arpaHost: the labels of bytes n down to `end`+1
\* of ip, decimal for IPv4, two hexadecimal labels a byte for IPv6 with the
\* high one shifted down or not.
RECURSIVE arpaLabels(_, _, _, _, _)
arpaLabels(ip, n, end, v4, shift) ==
    IF n <= end THEN <<>>
    ELSE (IF v4 THEN <<ToString(ip[n])>>
          ELSE LET u == IF shift THEN ip[n] \div 16 ELSE (ip[n] \div 16) * 16
                   l == ip[n] % 16
               IN  <<FormatHex(l), FormatHex(u)>>)
         \o arpaLabels(ip, n - 1, end, v4, shift)

\* arpaZone(net).
arpaZone(n) ==
    IF To4(n.IP) # NIL
    THEN arpaLabels(To4(n.IP), n.ones \div 8, 0, TRUE, TRUE) \o <<"in-addr", "arpa", "">>
    ELSE arpaLabels(n.IP, n.ones \div 8, 0, FALSE, TRUE) \o <<"ip6", "arpa", "">>

\* arpaHost(net, host).
arpaHost(n, host) ==
    LET end   == n.ones \div 8
        start == end + ((n.bits - n.ones) \div 8)
    IN  IF To4(host) # NIL
        THEN arpaLabels(To4(host), start, end, TRUE, TRUE)
        ELSE arpaLabels(host, start, end, FALSE, FALSE)

\* The body of exportReverse's loops, for the addresses addrs of one host.
RECURSIVE ptrLines(_, _, _, _)
ptrLines(d, h, n, addrs) ==
    IF addrs = <<>> THEN <<>>
    ELSE LET addr  == Head(addrs)
             attrs == d.host[h].Attrs
         IN  (IF ~NetContains(n, addr) THEN <<>>
              ELSE IF attrs.fqdn # <<>>
                   THEN <<Line("PTR", arpaHost(n, addr), attrs.fqdn \o <<"">>, <<>>)>>
              ELSE IF attrs.hostname # <<>> /\ ipDomain(d, h, addr) # <<>>
                   THEN <<Line("PTR", arpaHost(n, addr),
                               attrs.hostname \o ipDomain(d, h, addr) \o <<"">>, <<>>)>>
              ELSE <<>>)
             \o ptrLines(d, h, n, Tail(addrs))

RECURSIVE allPtrLines(_, _, _)
allPtrLines(d, hosts, n) ==
    IF hosts = <<>> THEN <<>>
    ELSE ptrLines(d, Head(hosts), n, sortedAddrs(d, Head(hosts)))
         \o allPtrLines(d, Tail(hosts), n)

\* An exportReverse that takes a CIDR of any length.
exportReverseAny(d, domain) ==
    {[zone |-> <<Line("$ORIGIN", arpaZone(ParseCIDRName(domain.Name).net), <<>>, <<>>),
                 Line("$TTL 600", <<>>, <<>>, <<>>),
                 SOA(domain),
                 BlankLine>>
               \o allPtrLines(d, d.Hosts, ParseCIDRName(domain.Name).net),
      err  |-> OK]}

\* exportReverse(db, domain): called on domains named by a CIDR only.
exportReverse(d, domain) ==
    LET n == ParseCIDRName(domain.Name).net
    IN  IF n.ones % 8 # 0
        THEN {[zone |-> <<>>, err |-> "not 8-bit aligned"]}
        ELSE {[zone |-> <<Line("$ORIGIN", arpaZone(n), <<>>, <<>>),
                          Line("$TTL 600", <<>>, <<>>, <<>>),
                          SOA(domain),
                          BlankLine>>
                        \o allPtrLines(d, d.Hosts, n),
               err  |-> OK]}

\* export(db, domain).
export(d, domain) ==
    IF ParseCIDRName(domain.Name).err = OK
    THEN exportReverse(d, domain)
    ELSE exportDirect(d, domain)

\* What ExportZone does once the first text is there and its hash is not the
\* stored one, or force is set: Inc, a second export, the hash stored.
\* A panic of Inc ends the call with the database as it was.
bumpAndExport(d, name, now) ==
    LET inc == ZoneSerialInc(d.Domains[name].Serial, now)
        d1  == [d EXCEPT !.Domains[name].Serial = inc.z]
    IN  IF inc.panic THEN {[d |-> d, zone |-> <<>>, err |-> "panic: Zone serial overflow"]}
        ELSE {IF r.err # OK THEN [d |-> d1, zone |-> <<>>, err |-> r.err]
              ELSE [d    |-> [d1 EXCEPT !.Domains[name].LastHash = zoneHash(r.zone)],
                    zone |-> r.zone,
                    err  |-> OK] : r \in export(d1, d1.Domains[name])}

\* An ExportZone that stores and returns the text it made before Inc.
ExportZoneStale(d, name, force, now) ==
    IF name \notin DOMAIN d.Domains THEN {[d |-> d, zone |-> <<>>, err |-> "domain not found"]}
    ELSE UNION {IF r.err # OK THEN {[d |-> d, zone |-> <<>>, err |-> r.err]}
                ELSE IF ~force /\ zoneHash(r.zone) = d.Domains[name].LastHash
                     THEN {[d |-> d, zone |-> r.zone, err |-> OK]}
                ELSE LET inc == ZoneSerialInc(d.Domains[name].Serial, now)
                     IN  IF inc.panic
                         THEN {[d |-> d, zone |-> <<>>, err |-> "panic: Zone serial overflow"]}
                         ELSE {[d    |-> [d EXCEPT !.Domains[name].Serial = inc.z,
                                                   !.Domains[name].LastHash = zoneHash(r.zone)],
                                zone |-> r.zone,
                                err  |-> OK]} :
                   r \in export(d, d.Domains[name])}

\* ExportZone(db, name, force): the results a call can have, each the
\* database it leaves, the text and the error it returns.
ExportZone(d, name, force, now) ==
    IF name \notin DOMAIN d.Domains THEN {[d |-> d, zone |-> <<>>, err |-> "domain not found"]}
    ELSE UNION {IF r.err # OK THEN {[d |-> d, zone |-> <<>>, err |-> r.err]}
                ELSE IF ~force /\ zoneHash(r.zone) = d.Domains[name].LastHash
                     THEN {[d |-> d, zone |-> r.zone, err |-> OK]}
                ELSE bumpAndExport(d, name, now) :
                   r \in export(d, d.Domains[name])}

\* ------------------------------------------------------------ dump and load

\* A JSON document of the later database is modelled by its value: Subnets
\* the set of the members of the object, each with its key, the text of
\* Net, Attrs and its own Subnets; Hosts the list of the hosts, each with
\* the list of its address texts; Domains the object of the domains, each
\* Serial a text.  The documents read have no key twice, so that a key can
\* stand for the pointer to the Subnet made from its member.

\* DB.validate() and recValidateSubnets: the first error, or none.
validate(d) ==
    IF \E name \in DOMAIN d.Domains : name # d.Domains[name].Name
    THEN "domain has map key"
    ELSE IF \E i \in 1..Len(d.Hosts) : \E k \in DOMAIN d.host[d.Hosts[i]].Addrs :
                IPString(d.host[d.Hosts[i]].Addrs[k]) \notin DOMAIN d.ipToHost
    THEN "address missing from lookup table"
    ELSE IF \E i \in 1..Len(d.Hosts) : \E k \in DOMAIN d.host[d.Hosts[i]].Addrs :
                d.ipToHost[IPString(d.host[d.Hosts[i]].Addrs[k])] # d.Hosts[i]
    THEN "address points to another host"
    ELSE IF \E k \in SubnetsUnder(d, d.Subnets) : NetString(d.subnet[k].Net) # k
    THEN "subnet has map key"
    ELSE IF \/ \E k \in d.Subnets : d.subnet[k].Parent # NIL
            \/ \E p \in SubnetsUnder(d, d.Subnets) :
                   \E k \in d.subnet[p].Subnets : d.subnet[k].Parent # p
    THEN "subnet has parent"
    ELSE OK

\* json.Marshal of a map cidr -> *Subnet.
RECURSIVE marshalSubnets(_, _)
marshalSubnets(d, S) ==
    {[key     |-> k,
      Net     |-> NetString(d.subnet[k].Net),
      Attrs   |-> d.subnet[k].Attrs,
      Subnets |-> marshalSubnets(d, d.subnet[k].Subnets)] : k \in S}

\* HostAddrs.MarshalJSON: the addresses in the order of their keys, each as
\* its text.
HostAddrsMarshalJSON(A) ==
    IF DOMAIN A = {} THEN <<>>
    ELSE With(CHOOSE s \in [1..Cardinality(DOMAIN A) -> DOMAIN A] :
                  \A i, j \in 1..Cardinality(DOMAIN A) :
                      i < j => StringLess(IPText(s[i]), IPText(s[j])),
              LAMBDA sorted : [i \in DOMAIN sorted |-> IPString(A[sorted[i]])])

\* ZoneSerial.MarshalJSON.
ZoneSerialMarshalJSON(z) == SerialString(z)

\* ZoneSerial.UnmarshalJSON.
ZoneSerialUnmarshalJSON(b) == [date |-> b[1], inc |-> b[2]]

\* DB.Bytes(): validate, then json.MarshalIndent.
Bytes(d) ==
    IF validate(d) # OK THEN [doc |-> NIL, err |-> validate(d)]
    ELSE [doc |-> [Subnets |-> marshalSubnets(d, d.Subnets),
                   Hosts   |-> [i \in 1..Len(d.Hosts) |->
                                   [Addrs |-> HostAddrsMarshalJSON(d.host[d.Hosts[i]].Addrs),
                                    Attrs |-> d.host[d.Hosts[i]].Attrs]],
                   Domains |-> [name \in DOMAIN d.Domains |->
                                   [d.Domains[name] EXCEPT
                                       !.Serial = ZoneSerialMarshalJSON(@)]]],
          err |-> OK]

\* The members of S and of the Subnets below them.
RECURSIVE membersUnder(_)
membersUnder(S) == S \cup UNION {membersUnder(s.Subnets) : s \in S}

\* HostAddrs.UnmarshalJSON: the addresses parsed, indexed by their texts.
HostAddrsUnmarshalJSON(in) ==
    [k \in {IPString(ParseIP(in[i])) : i \in 1..Len(in)} |->
        ParseIP(in[CHOOSE i \in 1..Len(in) : IPString(ParseIP(in[i])) = k])]

\* json.Unmarshal into New(): the Subnets with no Parent yet, the hosts in
\* the order of the list, no lookup table.
Unmarshal(doc) ==
    [Subnets  |-> {s.key : s \in doc.Subnets},
     Hosts    |-> [i \in 1..Len(doc.Hosts) |-> <<i>>],
     Domains  |-> [name \in DOMAIN doc.Domains |->
                      [doc.Domains[name] EXCEPT !.Serial = ZoneSerialUnmarshalJSON(@)]],
     ipToHost |-> EmptyMap,
     subnet   |-> [k \in {s.key : s \in membersUnder(doc.Subnets)} |->
                      With(CHOOSE s \in membersUnder(doc.Subnets) : s.key = k, LAMBDA s :
                          [Net     |-> ParseCIDR(s.Net),
                           Attrs   |-> s.Attrs,
                           Subnets |-> {c.key : c \in s.Subnets},
                           Parent  |-> NIL])],
     host     |-> [h \in {<<i>> : i \in 1..Len(doc.Hosts)} |->
                      [Addrs |-> HostAddrsUnmarshalJSON(doc.Hosts[h[1]].Addrs),
                       Attrs |-> doc.Hosts[h[1]].Attrs]]]

\* A recLinkSubnets that leaves Parent as json.Unmarshal made it.
recLinkSubnetsNone(d) == d

\* recLinkSubnets(ret, ret.Subnets, nil): every Subnet's Parent is the
\* Subnet whose map holds it.
recLinkSubnets(d) ==
    [d EXCEPT !.subnet = [k \in DOMAIN d.subnet |->
        [d.subnet[k] EXCEPT !.Parent =
            IF \E p \in DOMAIN d.subnet : k \in d.subnet[p].Subnets
            THEN CHOOSE p \in DOMAIN d.subnet : k \in d.subnet[p].Subnets
            ELSE NIL]]]

\* The loop of LoadBytes over the hosts from the i-th on: every address of
\* a host is entered in the lookup table, over what is there.
RECURSIVE linkHosts(_, _)
linkHosts(d, i) ==
    IF i > Len(d.Hosts) THEN d
    ELSE linkHosts([d EXCEPT !.ipToHost =
                        [k \in (DOMAIN @) \cup DOMAIN d.host[d.Hosts[i]].Addrs |->
                            IF k \in DOMAIN d.host[d.Hosts[i]].Addrs THEN d.Hosts[i] ELSE @[k]]],
                   i + 1)

\* LoadBytes(raw).
LoadBytes(doc) ==
    With(linkHosts(recLinkSubnets(Unmarshal(doc)), 1), LAMBDA ret :
        IF validate(ret) # OK THEN [d |-> NIL, err |-> validate(ret)]
        ELSE [d |-> ret, err |-> OK])

\* ------------------------------------------------------------ documents

\* Most members of one Subnets object of a document read, and most hosts
\* of its Hosts list.
MaxMembers == 2
MaxDocHosts == 2

\* The CIDRs of the documents read: a /29, a /31 inside it, and a /29 next
\* to it.
DocNets ==
    {NetString(ParseCIDR4(192, 168, 144, 0, 29)),
     NetString(ParseCIDR4(192, 168, 144, 0, 31)),
     NetString(ParseCIDR4(192, 168, 144, 8, 29))}

\* One member of a Subnets object.
Member(key, network, subnets) ==
    [key |-> key, Net |-> network, Attrs |-> [domain |-> <<>>, pattern |-> <<>>],
     Subnets |-> subnets]

\* The keys of the members of S and of all below them.
KeysOf(S) == {s.key : s \in membersUnder(S)}

\* The sets of at most MaxMembers members of M in which no key is twice.
MembersOf(M) ==
    {S \in UNION {{{m[i] : i \in 1..n} : m \in [1..n -> M]} : n \in 0..MaxMembers} :
        \A a, b \in S : a # b => KeysOf({a}) \cap KeysOf({b}) = {}}

\* Members without Subnets: every CIDR under its own key, and one under the
\* key of another.
Leaves ==
    {Member(k, k, {}) : k \in DocNets}
        \cup {Member(NetString(ParseCIDR4(192, 168, 144, 0, 29)),
                     NetString(ParseCIDR4(192, 168, 144, 8, 29)), {})}

\* Members with and without Subnets of their own.
Members ==
    Leaves \cup UNION {{Member(k, k, S) :
                           S \in {T \in MembersOf(Leaves) : T # {} /\ k \notin KeysOf(T)}} :
                       k \in DocNets}

\* The Hosts lists: at most MaxDocHosts hosts, each with the text of at
\* most one address.
DocHosts ==
    UNION {[1..n -> {[Addrs |-> a,
                      Attrs |-> [fqdn |-> <<>>, hostname |-> <<>>, domain |-> <<>>,
                                 cname |-> <<>>]] : a \in {l \in AddrLists : Len(l) <= 1}}] :
              n \in 0..MaxDocHosts}

\* The documents read.
Documents ==
    {[Subnets |-> S, Hosts |-> H, Domains |-> EmptyMap] : S \in MembersOf(Members), H \in DocHosts}

\* ------------------------------------------------------------ export inputs

\* Most days the clock advances to.
MaxDay == 2
\* Exports are called while the counter of the domain's serial is below this.
MaxSerial == 2

ExampleCom == <<"example", "com">>

\* The domains the callers add and export.
DomainNames == {ExampleCom}

\* The subnets the callers add to the later database: a /29 that carries the
\* domain, and under it two /31 with a dns-autogen-pattern, one of them with
\* a domain of its own.
SubnetInputs ==
    {[net   |-> ParseCIDR4(192, 168, 144, 0, 29),
      attrs |-> [domain |-> ExampleCom, pattern |-> <<>>]],
     [net   |-> ParseCIDR4(192, 168, 144, 0, 31),
      attrs |-> [domain |-> <<>>, pattern |-> <<"h", "$">>]],
     [net   |-> ParseCIDR4(192, 168, 144, 2, 31),
      attrs |-> [domain |-> ExampleCom, pattern |-> <<"h", "$">>]]}

\* The hosts the callers add to the later database: one named by its fqdn,
\* one by a hostname and the domain of its subnet, both at 192.168.144.1.
HostInputs ==
    {[addrs |-> <<ParseIP4(192, 168, 144, 1)>>,
      attrs |-> [fqdn |-> <<"vega">> \o ExampleCom, hostname |-> <<>>,
                 domain |-> <<>>, cname |-> <<>>]],
     [addrs |-> <<ParseIP4(192, 168, 144, 1)>>,
      attrs |-> [fqdn |-> <<>>, hostname |-> <<"nova">>,
                 domain |-> <<>>, cname |-> <<<<"www">>>>]]}

\* ============================================================ relational profile
\* The SQL database (package db of src/db): the tables realms and prefixes
\* of src/db/create.go, a row being a record and a table the set of its
\* rows.  A column that can be NULL, and a *int64 of the Go code, is NIL or
\* <<id>>.  A 64-bit integer column is the sequence of its 8 bytes, the most
\* significant first.

\* The largest prefix_id the runs reach.
MaxPrefixId == 4

\* A PrefixContains that does not compare the lengths.
PrefixContainsAnyLen(n1, n2) ==
    IF isv4(n1.IP) # isv4(n2.IP) THEN FALSE
    ELSE IPEqual(IPMask(n1.IP, n1.ones, n1.bits), IPMask(n2.IP, n1.ones, n1.bits))

\* util.PrefixContains(n1, n2).
PrefixContains(n1, n2) ==
    IF isv4(n1.IP) # isv4(n2.IP) THEN FALSE
    ELSE /\ n2.ones >= n1.ones
         /\ IPEqual(IPMask(n1.IP, n1.ones, n1.bits), IPMask(n2.IP, n1.ones, n1.bits))

\* The SQL function isSubnetOf(parent, child).
dbIsSubnetOf(parent, child) == PrefixContains(ParseCIDR(parent), ParseCIDR(child))

\* The SQL function prefixLen(pfx).
dbPrefixLen(pfx) == ParseCIDR(pfx).ones

\* n.IP[i] |= 0xff & ^n.Mask[i]: byte i with the bits the mask leaves out set.
OrNotMask(b, ones, i) ==
    LET keep == Max(0, Min(8, ones - 8 * (i - 1)))
        unit == 2 ^ (8 - keep)
    IN  (b \div unit) * unit + (unit - 1)

\* The SQL function prefixAsInt(pfx, upper, max): the upper or the lower 8
\* bytes of the 16-byte form of the first (or, with max, the last) address
\* of the prefix.
dbPrefixAsInt(pfx, upper, max) ==
    With(ParseCIDR(pfx), LAMBDA n :
    With(To16(IF max THEN [i \in 1..Len(n.IP) |-> OrNotMask(n.IP[i], n.ones, i)]
                     ELSE n.IP), LAMBDA ip :
        IF upper THEN SubSeq(ip, 1, 8) ELSE SubSeq(ip, 9, 16)))

\* x < 0 on a 64-bit integer column: the sign bit is set.
Negative(x) == x[1] >= 128

\* a < b on two 64-bit integers, as SQLite compares them: signed.
Int64Less(a, b) ==
    IF Negative(a) # Negative(b) THEN Negative(a) ELSE BytesLess(a, b)

\* The predicate without the correction for the signs: a >= b as SQLite
\* compares.
GeSigned(a, b) == ~Int64Less(a, b)

\* (a >= b) != ((a < 0) != (b < 0)) of the WHERE clauses.
GeXorSigns(a, b) == (~Int64Less(a, b)) # (Negative(a) # Negative(b))

\* (a <= b) != ((a < 0) != (b < 0)) of the WHERE clauses.
LeXorSigns(a, b) == (~Int64Less(b, a)) # (Negative(a) # Negative(b))

\* sql.Open and the create statements: empty tables.
NewSQL == [realms |-> {}, prefixes |-> {}, domains |-> {}]

\* The rowid SQLite gives the next row of a table with an INTEGER PRIMARY
\* KEY: one more than the largest in use.
NextRowId(ids) == IF ids = {} THEN 1 ELSE 1 + CHOOSE m \in ids : \A i \in ids : i <= m

\* (SELECT realm_id FROM realms WHERE name = $1), NULL when there is none.
RealmIdOf(s, name) ==
    IF \E m \in s.realms : m.name = name
    THEN <<(CHOOSE m \in s.realms : m.name = name).realm_id>>
    ELSE NIL

\* prefixes INNER JOIN realms USING (realm_id) WHERE realms.name = $1.
PrefixesOf(s, realm) == {r \in s.prefixes : <<r.realm_id>> = RealmIdOf(s, realm)}

\* DB.CreateRealm / Realm.Create: name is UNIQUE.
CreateRealm(s, name) ==
    IF \E m \in s.realms : m.name = name
    THEN [s |-> s, err |-> "ErrAlreadyExists"]
    ELSE [s   |-> [s EXCEPT !.realms = @ \cup
                      {[realm_id |-> NextRowId({m.realm_id : m \in s.realms}),
                        name     |-> name]}],
          err |-> OK]

\* The row INSERT INTO prefixes makes, the trigger prefixes_insert_denormalized
\* having filled the denormalized columns.
PrefixRow(id, realmId, parentId, pfx) ==
    [prefix_id   |-> id,
     realm_id    |-> realmId,
     parent_id   |-> parentId,
     prefix      |-> pfx,
     prefixlen   |-> dbPrefixLen(pfx),
     upper64     |-> dbPrefixAsInt(pfx, TRUE, FALSE),
     lower64     |-> dbPrefixAsInt(pfx, FALSE, FALSE),
     upper64_max |-> dbPrefixAsInt(pfx, TRUE, TRUE),
     lower64_max |-> dbPrefixAsInt(pfx, FALSE, TRUE)]

\* The first row of rows ORDER BY prefixLen(prefix) DESC LIMIT 1 (the column
\* prefixlen holds the same number).  Rows of one realm that all contain one
\* prefix have different lengths.
LongestOf(rows) ==
    CHOOSE r \in rows : \A x \in rows : dbPrefixLen(x.prefix) <= dbPrefixLen(r.prefix)

\* The WHERE clause of the UPDATE of Prefix.Create: the row is longer than
\* pfx and its first address is within pfx.
InsideNew(r, realmId, pfx) ==
    /\ r.realm_id = realmId
    /\ r.prefixlen > dbPrefixLen(pfx)
    /\ GeXorSigns(r.upper64, dbPrefixAsInt(pfx, TRUE, FALSE))
    /\ LeXorSigns(r.upper64, dbPrefixAsInt(pfx, TRUE, TRUE))
    /\ GeXorSigns(r.lower64, dbPrefixAsInt(pfx, FALSE, FALSE))
    /\ LeXorSigns(r.lower64, dbPrefixAsInt(pfx, FALSE, TRUE))

\* Prefix.Create, one transaction: the parent is the longest row of the
\* realm that contains the prefix; the row is inserted (prefix is UNIQUE in
\* the table, realm_id is NOT NULL); every row InsideNew gets the new row
\* as its parent.
PrefixCreate(s, realm, n) ==
    With(NetString(n), LAMBDA pfx :
    With({r \in PrefixesOf(s, realm) : dbIsSubnetOf(r.prefix, pfx)}, LAMBDA above :
    With(IF above = {} THEN NIL ELSE <<LongestOf(above).prefix_id>>, LAMBDA parentId :
    With(RealmIdOf(s, realm), LAMBDA realmId :
        IF realmId = NIL THEN [s |-> s, err |-> "NOT NULL constraint failed"]
        ELSE IF \E r \in s.prefixes : r.prefix = pfx
        THEN [s |-> s, err |-> "ErrAlreadyExists"]
        ELSE With(NextRowId({r.prefix_id : r \in s.prefixes}), LAMBDA prefixId :
             [s   |-> [s EXCEPT !.prefixes =
                          {IF InsideNew(r, realmId[1], pfx)
                           THEN [r EXCEPT !.parent_id = <<prefixId>>] ELSE r : r \in @}
                          \cup {PrefixRow(prefixId, realmId[1], parentId, pfx)}],
              err |-> OK])))))

\* A Delete that takes the longest row containing the prefix when the exact
\* one is not stored.
PrefixDeleteLongest(s, realm, n) ==
    With({r \in PrefixesOf(s, realm) : dbIsSubnetOf(r.prefix, NetString(n))}, LAMBDA found :
        IF found = {} THEN [s |-> s, err |-> "sql: no rows in result set"]
        ELSE With(LongestOf(found), LAMBDA row :
             [s   |-> [s EXCEPT !.prefixes =
                          {IF r.realm_id = row.realm_id /\ r.parent_id = <<row.prefix_id>>
                           THEN [r EXCEPT !.parent_id = row.parent_id] ELSE r :
                              r \in @ \ {row}}],
              err |-> OK]))

\* Prefix.Delete, one transaction: the row of the realm with this prefix;
\* its children get its parent; the row is deleted.
PrefixDelete(s, realm, n) ==
    With({r \in PrefixesOf(s, realm) : r.prefix = NetString(n)}, LAMBDA found :
        IF found = {} THEN [s |-> s, err |-> "sql: no rows in result set"]
        ELSE With(CHOOSE r \in found : TRUE, LAMBDA row :
             [s   |-> [s EXCEPT !.prefixes =
                          {IF r.realm_id = row.realm_id /\ r.parent_id = <<row.prefix_id>>
                           THEN [r EXCEPT !.parent_id = row.parent_id] ELSE r :
                              r \in @ \ {row}}],
              err |-> OK]))

\* Prefix.Get.
PrefixGet(s, realm, n) ==
    IF \E r \in PrefixesOf(s, realm) : r.prefix = NetString(n) THEN OK ELSE "ErrNotFound"

\* The WHERE clause of the query of GetLongestMatch: the row is shorter than
\* pfx and the first address of pfx is within the row's.
MatchesLonger(r, pfx) ==
    /\ r.prefixlen < dbPrefixLen(pfx)
    /\ LeXorSigns(r.upper64, dbPrefixAsInt(pfx, TRUE, FALSE))
    /\ GeXorSigns(r.upper64_max, dbPrefixAsInt(pfx, TRUE, FALSE))
    /\ LeXorSigns(r.lower64, dbPrefixAsInt(pfx, FALSE, FALSE))
    /\ GeXorSigns(r.lower64_max, dbPrefixAsInt(pfx, FALSE, FALSE))

\* Prefix.GetLongestMatch: the prefix itself when it is stored, else the
\* longest of the rows that match; p is the prefix found, NIL with an error.
GetLongestMatch(s, realm, n) ==
    IF PrefixGet(s, realm, n) = OK THEN [p |-> n, err |-> OK]
    ELSE With({r \in PrefixesOf(s, realm) : MatchesLonger(r, NetString(n))}, LAMBDA found :
             IF found = {} THEN [p |-> NIL, err |-> "sql: no rows in result set"]
             ELSE [p |-> ParseCIDR(LongestOf(found).prefix), err |-> OK])

\* The recursive query pfx of GetMatches: the rows from row up, each one
\* followed by the row its parent_id names.
RECURSIVE pfxChain(_, _)
pfxChain(s, row) ==
    {row} \cup IF row.parent_id = NIL THEN {}
               ELSE UNION {pfxChain(s, r) : r \in {x \in s.prefixes : <<x.prefix_id>> = row.parent_id}}

\* rows ORDER BY prefixLen(prefix) DESC, as the prefixes parsed.
RECURSIVE ByLenDesc(_)
ByLenDesc(rows) ==
    IF rows = {} THEN <<>>
    ELSE With(LongestOf(rows), LAMBDA r : <<ParseCIDR(r.prefix)>> \o ByLenDesc(rows \ {r}))

\* Prefix.GetMatches: the longest match, then the rows from it up.
GetMatches(s, realm, n) ==
    With(GetLongestMatch(s, realm, n), LAMBDA m :
        IF m.err # OK THEN [matches |-> <<>>, err |-> m.err]
        ELSE [matches |-> ByLenDesc(UNION {pfxChain(s, r) :
                              r \in {x \in PrefixesOf(s, realm) : x.prefix = NetString(m.p)}}),
              err     |-> OK])

\* Prefix.GetMatches of db.go: every row of the table that contains the
\* prefix, longest first; the WHERE clause names no realm.
GetMatchesOfTable(s, realm, n) ==
    ByLenDesc({r \in s.prefixes : dbIsSubnetOf(r.prefix, NetString(n))})

\* The orders in which ORDER BY parent_id can return rows: NULL first, then
\* ascending; rows of one parent_id come in any order.
TreeOrders(rows) ==
    {o \in [1..Cardinality(rows) -> rows] :
        /\ \A i, j \in 1..Cardinality(rows) : i # j => o[i] # o[j]
        /\ \A i, j \in 1..Cardinality(rows) :
               i < j => \/ o[i].parent_id = NIL
                        \/ o[j].parent_id # NIL /\ o[i].parent_id[1] <= o[j].parent_id[1]}

\* The loop of GetPrefixTree over the rows o[i..]: t.roots is the slice
\* roots, t.children the Children of every PrefixTree in the map prefixes,
\* both by prefix_id; a parent_id that is not in the map yet gives a nil
\* *PrefixTree, and the append to its Children panics.
RECURSIVE treeLoop(_, _, _)
treeLoop(o, i, t) ==
    IF i > Len(o) THEN t
    ELSE IF o[i].parent_id = NIL
    THEN treeLoop(o, i + 1, [t EXCEPT !.roots = Append(@, o[i].prefix_id),
                                      !.children = MapPut(@, o[i].prefix_id, <<>>)])
    ELSE IF o[i].parent_id[1] \notin DOMAIN t.children
    THEN [t EXCEPT !.panic = TRUE]
    ELSE treeLoop(o, i + 1,
                  [t EXCEPT !.children =
                      MapPut([@ EXCEPT ![o[i].parent_id[1]] = Append(@, o[i].prefix_id)],
                             o[i].prefix_id, <<>>)])

\* Realm.GetPrefixTree(): what a call can come to, one outcome for each
\* order of the rows.
GetPrefixTree(s, realm) ==
    {treeLoop(o, 1, [roots |-> <<>>, children |-> EmptyMap, panic |-> FALSE]) :
        o \in TreeOrders(PrefixesOf(s, realm))}

\* The realms the callers name.
RealmNames == {"prod", "staging"}

\* The CIDRs the callers pass to the relational profile: the chain
\* /22 > /26 > /28, a sibling of the /26 and one IPv6 prefix.
RelNets ==
    {ParseCIDR4(192, 168, 144, 0, 22),
     ParseCIDR4(192, 168, 144, 0, 26),
     ParseCIDR4(192, 168, 144, 0, 28),
     ParseCIDR4(192, 168, 144, 128, 25),
     ParseCIDR6(Doc6(0), 32)}

\* ============================================================ the server's SQL database
\* The HTTP server over SQL (package main of src/prefix.go, src/db.go and
\* src/db_funcs.go): the tables realms and prefixes of src/db.go, with
\* foreign keys enforced.  A row is a record, a table the set of its rows.

\* NewDB(path): the create statements on a new file.
serverNewDB == [realms |-> {}, prefixes |-> {}]

\* The SQL function prefixIsInside(child, parent).
dbPrefixIsInside(child, parent) == PrefixContains(ParseCIDR(parent), ParseCIDR(child))

\* server.createRealm: the name is not empty and is UNIQUE.
createRealm(s, name) ==
    IF name = "" THEN [s |-> s, err |-> "Must specify a realm name."]
    ELSE IF \E m \in s.realms : m.name = name THEN [s |-> s, err |-> "UNIQUE constraint failed"]
    ELSE [s   |-> [s EXCEPT !.realms = @ \cup
                      {[realm_id |-> NextRowId({m.realm_id : m \in s.realms}),
                        name     |-> name]}],
          err |-> OK]

\* server.attachPrefix on the rows of the table: the parent is the longest
\* row of the realm that prefix is inside; the row prefixID gets it, and
\* the rows that had that parent and are inside prefix get prefixID.
attachPrefix(rows, realmID, prefixID, prefix) ==
    With({r \in rows : r.realm_id = realmID /\ dbPrefixIsInside(prefix, r.prefix)}, LAMBDA above :
    With(IF above = {} THEN NIL ELSE <<LongestOf(above).prefix_id>>, LAMBDA parentID :
    With({IF r.realm_id = realmID /\ r.prefix_id = prefixID
          THEN [r EXCEPT !.parent_id = parentID] ELSE r : r \in rows}, LAMBDA rows1 :
        {IF r.realm_id = realmID /\ r.parent_id = parentID /\ dbPrefixIsInside(r.prefix, prefix)
         THEN [r EXCEPT !.parent_id = <<prefixID>>] ELSE r : r \in rows1})))

\* server.createPrefix, one transaction: the row is inserted with no parent
\* (the realm exists, the prefix is UNIQUE in the realm), then attached.
createPrefix(s, realmID, n) ==
    With(NetString(n), LAMBDA pfx :
        IF ~\E m \in s.realms : m.realm_id = realmID
        THEN [s |-> s, err |-> "FOREIGN KEY constraint failed"]
        ELSE IF \E r \in s.prefixes : r.realm_id = realmID /\ r.prefix = pfx
        THEN [s |-> s, err |-> "UNIQUE constraint failed"]
        ELSE With(NextRowId({r.prefix_id : r \in s.prefixes}), LAMBDA id :
             [s   |-> [s EXCEPT !.prefixes =
                          attachPrefix(@ \cup {[prefix_id |-> id, realm_id |-> realmID,
                                                parent_id |-> NIL, prefix |-> pfx]},
                                       realmID, id, pfx)],
              err |-> OK]))

\* server.detachPrefix on the rows of the table: the children of the row get
\* its parent; what still names the row as parent gets NULL.
detachPrefix(rows, realmID, prefixID) ==
    With({r \in rows : r.realm_id = realmID /\ r.prefix_id = prefixID}, LAMBDA found :
        IF found = {} THEN [rows |-> rows, err |-> "sql: no rows in result set"]
        ELSE With((CHOOSE r \in found : TRUE).parent_id, LAMBDA parentID :
             With({IF r.realm_id = realmID /\ r.parent_id = <<prefixID>>
                   THEN [r EXCEPT !.parent_id = parentID] ELSE r : r \in rows}, LAMBDA rows1 :
                 [rows |-> {IF r.realm_id = realmID /\ r.parent_id = <<prefixID>>
                            THEN [r EXCEPT !.parent_id = NIL] ELSE r : r \in rows1},
                  err  |-> OK])))

\* ON DELETE CASCADE: the rows that go when the rows gone do, each row
\* whose parent_id names a row that goes.
RECURSIVE cascade(_, _)
cascade(rows, gone) ==
    With(gone \cup {r \in rows : \E g \in gone : r.parent_id = <<g.prefix_id>>}, LAMBDA more :
        IF more = gone THEN gone ELSE cascade(rows, more))

\* server.deletePrefix, one transaction: without recursive the row is
\* detached first; then it is deleted, and the foreign key deletes what
\* names it as parent.
deletePrefix(s, realmID, prefixID, recursive) ==
    With(IF recursive THEN [rows |-> s.prefixes, err |-> OK]
         ELSE detachPrefix(s.prefixes, realmID, prefixID), LAMBDA d :
        IF d.err # OK THEN [s |-> s, err |-> d.err]
        ELSE [s   |-> [s EXCEPT !.prefixes =
                          d.rows \ cascade(d.rows, {r \in d.rows : /\ r.realm_id = realmID
                                                                   /\ r.prefix_id = prefixID})],
              err |-> OK])

\* server.editPrefix, one transaction: the row is read; when the prefix
\* changes the row is detached, gets the new prefix (UNIQUE in the realm)
\* and is attached again.  Descriptions are not modelled.
editPrefix(s, realmID, prefixID, n) ==
    With(NetString(n), LAMBDA pfx :
    With({r \in s.prefixes : r.realm_id = realmID /\ r.prefix_id = prefixID}, LAMBDA found :
        IF found = {} THEN [s |-> s, err |-> "sql: no rows in result set"]
        ELSE IF (CHOOSE r \in found : TRUE).prefix = pfx THEN [s |-> s, err |-> OK]
        ELSE IF \E r \in s.prefixes : r.realm_id = realmID /\ r.prefix = pfx
        THEN [s |-> s, err |-> "UNIQUE constraint failed"]
        ELSE With(detachPrefix(s.prefixes, realmID, prefixID).rows, LAMBDA rows :
             [s   |-> [s EXCEPT !.prefixes =
                          attachPrefix({IF r.realm_id = realmID /\ r.prefix_id = prefixID
                                        THEN [r EXCEPT !.prefix = pfx] ELSE r : r \in rows},
                                       realmID, prefixID, pfx)],
              err |-> OK])))

\* ------------------------------------------------------------ requests in flight

\* The Bind9 requests the server can be serving at once: net/http runs every
\* request in a goroutine of its own.
MaxHandlers == 2

Handlers == 1..MaxHandlers

\* A goroutine that serves no request.  Otherwise pc is the statement of
\* ExportZone the goroutine is at, name the domain and zone the local
\* variable zone.
Idle == [pc |-> "idle", name |-> <<>>, zone |-> <<>>]

\* ------------------------------------------------------------ domains in SQL

\* A row of the table domains is its realm_id, its name, the email of its
\* SOA and its serial, the text DomainSerial.String() made.  A *Domain is
\* the record of its realm, Name, Email and Serial.

\* DomainSerial.Scan(v): the serial a text of the column denotes.
DomainSerialScan(v) == [date |-> v[1], inc |-> v[2]]

\* Realm.Domain(name): a *Domain with nothing of the SOA set and the zero
\* serial.
RealmDomain(realm, name) ==
    [realm |-> realm, Name |-> name, Email |-> <<>>, Serial |-> ZeroSerial]

\* Domain.validate(): the defaults of the SOA filled in.
DomainValidate(d) ==
    IF d.Email = <<>> THEN [d EXCEPT !.Email = <<"hostmaster">> \o d.Name] ELSE d

\* The rows of domains that realm and name select.
DomainRows(s, realm, name) ==
    {r \in s.domains : <<r.realm_id>> = RealmIdOf(s, realm) /\ r.name = name}

\* Domain.Create(): validate, Serial.Inc(), INSERT.  Inc is that of
\* ZoneSerial, statement by statement.
DomainCreate(s, d, now) ==
    With(DomainValidate(d), LAMBDA v :
        IF DomainRows(s, v.realm, v.Name) # {} THEN [s |-> s, err |-> "ErrAlreadyExists"]
        ELSE [s   |-> [s EXCEPT !.domains = @ \cup
                          {[realm_id |-> RealmIdOf(s, v.realm)[1],
                            name     |-> v.Name,
                            email    |-> v.Email,
                            serial   |-> SerialString(ZoneSerialInc(v.Serial, now).z)]}],
              err |-> OK])

\* Domain.Get(): the *Domain filled from its row, or ErrNotFound.
DomainGet(s, d) ==
    IF DomainRows(s, d.realm, d.Name) = {} THEN [d |-> d, err |-> "ErrNotFound"]
    ELSE With(CHOOSE r \in DomainRows(s, d.realm, d.Name) : TRUE, LAMBDA r :
             [d   |-> [d EXCEPT !.Email = r.email, !.Serial = DomainSerialScan(r.serial)],
              err |-> OK])

\* Domain.Save(): validate, Serial.Inc(), UPDATE, mustHaveChanged.  A panic
\* of Inc ends the call before the UPDATE.
DomainSave(s, d, now) ==
    With(DomainValidate(d), LAMBDA v :
        IF ZoneSerialInc(v.Serial, now).panic THEN [s |-> s, err |-> "panic: Zone serial overflow"]
        ELSE IF DomainRows(s, v.realm, v.Name) = {} THEN [s |-> s, err |-> "ErrNotFound"]
        ELSE [s   |-> [s EXCEPT !.domains =
                          {IF r \in DomainRows(s, v.realm, v.Name)
                           THEN [r EXCEPT !.email  = v.Email,
                                          !.serial = SerialString(ZoneSerialInc(v.Serial, now).z)]
                           ELSE r : r \in @}],
              err |-> OK])

\* Domain.Delete().
DomainDelete(s, d) ==
    [s EXCEPT !.domains = @ \ DomainRows(s, d.realm, d.Name)]

\* The emails the callers set.
Emails == {<<"hostmaster">> \o ExampleCom, <<"lol">>}

\* ------------------------------------------------------------ state

VARIABLES
    db,             \* the database the program works on (src/database/db.go)
    golden,         \* the golden database of TestAllocateDeallocate
    phase,          \* where TestAllocateDeallocate is: "add" or "delete"
    rangesInOrder,  \* the ranges the test has added, then deleted, so far
    sdb,            \* the later database, the one zones are exported from
    today,          \* the day time.Now() is in
    out,            \* the zone text the last export returned, <<>> before
    dirty,          \* the later database has changed since that export
    sql,            \* the SQL database of the relational profile (src/db)
    srv,            \* the SQL database of the HTTP server (src/prefix.go)
    req             \* the Bind9 requests being served, one goroutine each

vars == <<db, golden, phase, rangesInOrder, sdb, today, out, dirty, sql, srv, req>>

testVars == <<golden, phase, rangesInOrder>>

exportVars == <<sdb, today, out, dirty>>

Init ==
    /\ db = New
    /\ golden = New
    /\ phase = "add"
    /\ rangesInOrder = <<>>
    /\ sdb = NewDB
    /\ today = 1
    /\ out = <<>>
    /\ dirty = FALSE
    /\ sql = NewSQL
    /\ srv = serverNewDB
    /\ req = [t \in Handlers |-> Idle]

\* ------------------------------------------------------------ allocations and hosts

\* `alloc add`: the CLI and the server call AddAllocation with a parsed CIDR.
DoAddAllocation(n) ==
    LET r == AddAllocation(db, n)
    IN  /\ r.err # OK \/ Cardinality(Live(db)) < MaxAllocs
        /\ db' = r.d
        /\ UNCHANGED <<testVars, exportVars, sql, srv, req>>

\* `alloc rm`: the allocation is looked up by its exact CIDR, then removed
\* with its children reparented or dropped.
DoRemoveAllocation(n, reparent) ==
    LET alloc == FindAllocation(db, n, TRUE)
    IN  /\ alloc # NIL
        /\ db' = RemoveAllocation(db, alloc, reparent).d
        /\ UNCHANGED <<testVars, exportVars, sql, srv, req>>

\* `host add`.
DoAddHost(addrs) ==
    LET r == AddHost(db, addrs)
    IN  /\ r.err # OK \/ Len(db.Hosts) < MaxHosts
        /\ db' = r.d
        /\ UNCHANGED <<testVars, exportVars, sql, srv, req>>

\* `host rm`: the host is looked up by one of its addresses, then removed.
DoRemoveHost(ip) ==
    LET h == FindHost(db, ip)
    IN  /\ h # NIL
        /\ db' = RemoveHost(db, h).d
        /\ UNCHANGED <<testVars, exportVars, sql, srv, req>>

\* AddHostAddr on a registered host.
DoAddHostAddr(h, a) ==
    LET r == AddHostAddr(db, h, a)
    IN  /\ r.err # OK \/ Len(db.host[h].Addrs) < MaxAddrs
        /\ db' = r.d
        /\ UNCHANGED <<testVars, exportVars, sql, srv, req>>

\* RmHostAddr on a registered host.
DoRmHostAddr(h, a) ==
    /\ db' = RmHostAddr(db, h, a).d
    /\ UNCHANGED <<testVars, exportVars, sql, srv, req>>

Next ==
    \/ \E n \in Nets : DoAddAllocation(n)
    \/ \E n \in Nets, reparent \in BOOLEAN : DoRemoveAllocation(n, reparent)
    \/ \E addrs \in AddrLists : DoAddHost(addrs)
    \/ \E ip \in IPs : DoRemoveHost(ip)
    \/ \E h \in Range(db.Hosts), a \in IPs : DoAddHostAddr(h, a)
    \/ \E h \in Range(db.Hosts), a \in IPs : DoRmHostAddr(h, a)

\* Allocations, hosts and host addresses, added and removed in any order.
Spec == Init /\ [][Next]_vars

TreeNext ==
    \/ \E n \in TreeNets : DoAddAllocation(n)
    \/ \E n \in TreeNets, reparent \in BOOLEAN : DoRemoveAllocation(n, reparent)

\* Allocations alone, over the larger set of CIDRs.
TreeSpec == Init /\ [][TreeNext]_vars

\* ------------------------------------------------------------ TestAllocateDeallocate

\* deleteNet(db, net) of the test.
deleteNet(d, network) ==
    LET alloc == FindAllocation(d, network, TRUE)
    IN  IF alloc = NIL THEN [d |-> d, err |-> "not in DB"]
        ELSE RemoveAllocation(d, alloc, TRUE)

\* The golden database gets the next range of the list.
GoldenAdd ==
    /\ phase = "add"
    /\ Cardinality(Live(golden)) < Len(ranges)
    /\ golden' = AddAllocation(golden, ranges[Cardinality(Live(golden)) + 1]).d
    /\ UNCHANGED <<db, phase, rangesInOrder, exportVars, sql, srv, req>>

\* The database gets the next range of a permutation of the list.
DbAdd(i) ==
    /\ phase = "add"
    /\ ranges[i] \notin Range(rangesInOrder)
    /\ db' = AddAllocation(db, ranges[i]).d
    /\ rangesInOrder' = Append(rangesInOrder, ranges[i])
    /\ UNCHANGED <<golden, phase, exportVars, sql, srv, req>>

\* Both databases hold every range: the deletions start.
StartDelete ==
    /\ phase = "add"
    /\ Cardinality(Live(golden)) = Len(ranges)
    /\ Len(rangesInOrder) = Len(ranges)
    /\ phase' = "delete"
    /\ rangesInOrder' = <<>>
    /\ UNCHANGED <<db, golden, exportVars, sql, srv, req>>

\* The next range of a second permutation is deleted from both databases.
DeleteBoth(i) ==
    /\ phase = "delete"
    /\ ranges[i] \notin Range(rangesInOrder)
    /\ golden' = deleteNet(golden, ranges[i]).d
    /\ db' = deleteNet(db, ranges[i]).d
    /\ rangesInOrder' = Append(rangesInOrder, ranges[i])
    /\ UNCHANGED <<phase, exportVars, sql, srv, req>>

\* The next iteration of the test's loop starts from two new databases.
NextIteration ==
    /\ phase = "delete"
    /\ Len(rangesInOrder) = Len(ranges)
    /\ db' = New
    /\ golden' = New
    /\ phase' = "add"
    /\ rangesInOrder' = <<>>
    /\ UNCHANGED <<exportVars, sql, srv, req>>

OrderNext ==
    \/ GoldenAdd
    \/ \E i \in 1..Len(ranges) : DbAdd(i)
    \/ StartDelete
    \/ \E i \in 1..Len(ranges) : DeleteBoth(i)
    \/ NextIteration

\* TestAllocateDeallocate, for every pair of permutations.
OrderSpec == Init /\ [][OrderNext]_vars

\* ------------------------------------------------------------ subnets, hosts, domains, export

\* The server's handlers below change the later database; dirty records
\* that they did.
Mutated(d) ==
    /\ sdb' = d
    /\ dirty' = (dirty \/ d # sdb)
    /\ UNCHANGED <<db, testVars, today, out, sql, srv, req>>

DoAddDomain(name) == Mutated(AddDomain(sdb, name, <<>>, <<>>).d)

DoAddSubnet(in) == Mutated(AddSubnet(sdb, in.net, in.attrs).d)

\* The subnet is looked up by its exact CIDR, then deleted.
DoSubnetDelete(n, recursive) ==
    LET s == DBSubnet(sdb, n, TRUE)
    IN  /\ s # NIL
        /\ Mutated(SubnetDelete(sdb, s, recursive))

DoAddHost2(in) ==
    LET r == AddHost2(sdb, in.addrs, in.attrs)
    IN  /\ r.err # OK \/ Len(sdb.Hosts) < MaxHosts
        /\ Mutated(r.d)

\* The host is looked up by one of its addresses, then deleted.
DoHostDelete(ip) ==
    LET h == DBHost(sdb, ip)
    IN  /\ h # NIL
        /\ Mutated(HostDelete(sdb, h))

\* The server's Bind9 handler: ExportZone(s.db, domain, false).
Bind9(name) ==
    /\ name \in DOMAIN sdb.Domains => sdb.Domains[name].Serial.inc < MaxSerial
    /\ \E r \in ExportZone(sdb, name, FALSE, today) :
          /\ sdb' = r.d
          /\ out' = IF r.err = OK THEN r.zone ELSE out
          /\ dirty' = IF r.err = OK THEN FALSE ELSE dirty
    /\ UNCHANGED <<db, testVars, today, sql, srv, req>>

\* Midnight UTC passes.
Tick ==
    /\ today < MaxDay
    /\ today' = today + 1
    /\ UNCHANGED <<db, testVars, sdb, out, dirty, sql, srv, req>>

ExportNext ==
    \/ \E name \in DomainNames : DoAddDomain(name)
    \/ \E in \in SubnetInputs : DoAddSubnet(in)
    \/ \E in \in SubnetInputs, recursive \in BOOLEAN : DoSubnetDelete(in.net, recursive)
    \/ \E in \in HostInputs : DoAddHost2(in)
    \/ \E in \in HostInputs : DoHostDelete(in.addrs[1])
    \/ \E name \in DomainNames : Bind9(name)
    \/ Tick

\* The later database changed and exported in any order, the clock running.
ExportSpec == Init /\ [][ExportNext]_vars

\* ------------------------------------------------------------ exports at the same time

\* No Bind9 request is being served.
Quiet == \A t \in Handlers : req[t] = Idle

\* A handler of the later database that runs between requests.
WhenQuiet(A) == Quiet /\ A

\* Bind9 up to the hash comparison of ExportZone: the domain is looked up,
\* the zone exported, its hash compared with the stored one.  The request
\* ends here with an error or with the text unchanged; otherwise it goes on
\* to Inc with the text in zone.
Bind9Check(t, name) ==
    /\ req[t] = Idle
    /\ name \in DOMAIN sdb.Domains => sdb.Domains[name].Serial.inc < MaxSerial
    /\ IF name \notin DOMAIN sdb.Domains
       THEN UNCHANGED <<req, out, dirty>>
       ELSE \E r \in export(sdb, sdb.Domains[name]) :
               IF r.err # OK THEN UNCHANGED <<req, out, dirty>>
               ELSE IF zoneHash(r.zone) = sdb.Domains[name].LastHash
                    THEN /\ out' = r.zone
                         /\ dirty' = FALSE
                         /\ UNCHANGED req
               ELSE /\ req' = [req EXCEPT ![t] = [pc |-> "inc", name |-> name, zone |-> r.zone]]
                    /\ UNCHANGED <<out, dirty>>
    /\ UNCHANGED <<db, testVars, sdb, today, sql, srv>>

\* domain.Serial.Inc() of ExportZone.  A panic ends the request, the
\* database as it was.
Bind9Inc(t) ==
    /\ req[t].pc = "inc"
    /\ With(ZoneSerialInc(sdb.Domains[req[t].name].Serial, today), LAMBDA inc :
          IF inc.panic
          THEN /\ req' = [req EXCEPT ![t] = Idle]
               /\ UNCHANGED sdb
          ELSE /\ sdb' = [sdb EXCEPT !.Domains[req[t].name].Serial = inc.z]
               /\ req' = [req EXCEPT ![t].pc = "export"])
    /\ UNCHANGED <<db, testVars, today, out, dirty, sql, srv>>

\* The second export of ExportZone.
Bind9Export(t) ==
    /\ req[t].pc = "export"
    /\ \E r \in export(sdb, sdb.Domains[req[t].name]) :
          req' = [req EXCEPT ![t] = IF r.err # OK THEN Idle
                                    ELSE [req[t] EXCEPT !.pc = "store", !.zone = r.zone]]
    /\ UNCHANGED <<db, testVars, exportVars, sql, srv>>

\* domain.LastHash = zoneHash(zone) of ExportZone, and Bind9 writing the
\* text out.
Bind9Store(t) ==
    /\ req[t].pc = "store"
    /\ sdb' = [sdb EXCEPT !.Domains[req[t].name].LastHash = zoneHash(req[t].zone)]
    /\ out' = req[t].zone
    /\ dirty' = FALSE
    /\ req' = [req EXCEPT ![t] = Idle]
    /\ UNCHANGED <<db, testVars, today, sql, srv>>

ConcurrentNext ==
    \/ \E name \in DomainNames : WhenQuiet(DoAddDomain(name))
    \/ \E in \in SubnetInputs : WhenQuiet(DoAddSubnet(in))
    \/ \E in \in HostInputs : WhenQuiet(DoAddHost2(in))
    \/ \E in \in HostInputs : WhenQuiet(DoHostDelete(in.addrs[1]))
    \/ \E t \in Handlers, name \in DomainNames : Bind9Check(t, name)
    \/ \E t \in Handlers : Bind9Inc(t)
    \/ \E t \in Handlers : Bind9Export(t)
    \/ \E t \in Handlers : Bind9Store(t)

\* The later database changed between requests, and exported by requests
\* that run at the same time, one statement of ExportZone a step.
ConcurrentSpec == Init /\ [][ConcurrentNext]_vars

\* The documents that hold example.com alone, its serial that of any day
\* up to MaxDay with a counter of 0 or 1.
SerialDocuments ==
    {[Subnets |-> {},
      Hosts   |-> <<>>,
      Domains |-> [name \in {ExampleCom} |->
                      [AddDomain(NewDB, name, <<>>, <<>>).d.Domains[name] EXCEPT
                          !.Serial = ZoneSerialMarshalJSON([date |-> date, inc |-> inc])]]] :
        date \in 0..MaxDay, inc \in 0..1}

\* ------------------------------------------------------------ loading

\* The program started on a file that holds doc: database.Load.  A load
\* that fails ends the program, the database of the model left as it was.
DoLoadBytes(doc) ==
    /\ sdb' = IF LoadBytes(doc).err = OK THEN LoadBytes(doc).d ELSE sdb
    /\ UNCHANGED <<db, testVars, today, out, dirty, sql, srv, req>>

LoadNext == \E doc \in Documents : DoLoadBytes(doc)

\* The program started on one document after another.
LoadSpec == Init /\ [][LoadNext]_vars

SerialNext ==
    \/ \E doc \in SerialDocuments : DoLoadBytes(doc)
    \/ \E in \in HostInputs : DoAddHost2(in)
    \/ \E in \in HostInputs : DoHostDelete(in.addrs[1])
    \/ \E name \in DomainNames : Bind9(name)
    \/ Tick

\* The program started on a file with one domain, hosts added and deleted,
\* the domain exported, the clock running.
SerialSpec == Init /\ [][SerialNext]_vars

\* A caller of the package exporting with force set: ExportZone(db, name,
\* true), which increments the serial whatever the text.
ForcedExport(name) ==
    /\ \E r \in ExportZone(sdb, name, TRUE, today) :
          /\ sdb' = r.d
          /\ out' = IF r.err = OK THEN r.zone ELSE out
          /\ dirty' = IF r.err = OK THEN FALSE ELSE dirty
    /\ UNCHANGED <<db, testVars, today, sql, srv, req>>

OverflowNext ==
    \/ \E name \in DomainNames : DoAddDomain(name)
    \/ \E name \in DomainNames : ForcedExport(name)

\* One domain exported with force over and over on one day.
OverflowSpec == Init /\ [][OverflowNext]_vars

\* ------------------------------------------------------------ reverse zones

\* AddDomain of a reverse zone, its primary NS and email given.
DoAddReverseDomain(name) ==
    Mutated(AddDomain(sdb, name, <<"ns1">> \o ExampleCom, <<"hostmaster">> \o ExampleCom).d)

ReverseNext ==
    \/ \E name \in DOMAIN ReverseZones : DoAddReverseDomain(name)
    \/ \E in \in HostInputs : DoAddHost2(in)
    \/ \E in \in HostInputs : DoHostDelete(in.addrs[1])
    \/ \E name \in DOMAIN ReverseZones : Bind9(name)
    \/ Tick

\* Reverse zones added and exported, hosts added and deleted, the clock
\* running.
ReverseSpec == Init /\ [][ReverseNext]_vars

\* ------------------------------------------------------------ realms and prefixes

\* DB.CreateRealm.
DoCreateRealm(name) ==
    /\ sql' = CreateRealm(sql, name).s
    /\ UNCHANGED <<db, testVars, exportVars, srv, req>>

\* Realm.Prefix(n).Create().
DoPrefixCreate(realm, n) ==
    LET r == PrefixCreate(sql, realm, n)
    IN  /\ r.err # OK \/ NextRowId({x.prefix_id : x \in sql.prefixes}) <= MaxPrefixId
        /\ sql' = r.s
        /\ UNCHANGED <<db, testVars, exportVars, srv, req>>

\* Realm.Prefix(n).Delete().
DoPrefixDelete(realm, n) ==
    /\ sql' = PrefixDelete(sql, realm, n).s
    /\ UNCHANGED <<db, testVars, exportVars, srv, req>>

RelNext ==
    \/ \E name \in RealmNames : DoCreateRealm(name)
    \/ \E name \in RealmNames, n \in RelNets : DoPrefixCreate(name, n)
    \/ \E name \in RealmNames, n \in RelNets : DoPrefixDelete(name, n)

\* Realms created, prefixes created and deleted in them, in any order.
RelSpec == Init /\ [][RelNext]_vars

\* ------------------------------------------------------------ domains of a realm

\* r.Domain(name).Create(), in a realm that exists.
DoDomainCreate(realm, name) ==
    /\ RealmIdOf(sql, realm) # NIL
    /\ sql' = DomainCreate(sql, RealmDomain(realm, name), today).s
    /\ UNCHANGED <<db, testVars, exportVars, srv, req>>

\* d := r.Domain(name); d.Get(); d.SOA.Email = email; d.Save().
DoDomainSave(realm, name, email) ==
    /\ DomainGet(sql, RealmDomain(realm, name)).err = OK
    /\ DomainGet(sql, RealmDomain(realm, name)).d.Serial.inc < MaxSerial
    /\ sql' = DomainSave(sql, [DomainGet(sql, RealmDomain(realm, name)).d EXCEPT !.Email = email],
                         today).s
    /\ UNCHANGED <<db, testVars, exportVars, srv, req>>

\* r.Domain(name).Delete().
DoDomainDelete(realm, name) ==
    /\ sql' = DomainDelete(sql, RealmDomain(realm, name))
    /\ UNCHANGED <<db, testVars, exportVars, srv, req>>

DomainNext ==
    \/ \E name \in RealmNames : DoCreateRealm(name)
    \/ \E realm \in RealmNames, name \in DomainNames : DoDomainCreate(realm, name)
    \/ \E realm \in RealmNames, name \in DomainNames, email \in Emails :
          DoDomainSave(realm, name, email)
    \/ \E realm \in RealmNames, name \in DomainNames : DoDomainDelete(realm, name)
    \/ Tick

\* Realms created, their domains created, edited and deleted, the clock
\* running.
DomainSpec == Init /\ [][DomainNext]_vars

\* ------------------------------------------------------------ longest match

\* fe80::<last byte>
LinkLocal6(last) == <<254, 128, 0, 0, 0, 0, 0, 0, 0, 0, 0, 0, 0, 0, 0, last>>

\* The CIDRs stored for the longest-match lookups: all of IPv6, the
\* link-local prefix, and an IPv4 /22 with a /26 inside it.
MatchNets ==
    {ParseCIDR6(LinkLocal6(0), 0),
     ParseCIDR6(LinkLocal6(0), 10),
     ParseCIDR4(192, 168, 144, 0, 22),
     ParseCIDR4(192, 168, 144, 0, 26)}

\* The CIDRs looked up: those stored, an IPv4 /28 and a link-local host.
MatchQueries ==
    MatchNets \cup {ParseCIDR4(192, 168, 144, 0, 28), ParseCIDR6(LinkLocal6(1), 128)}

\* The realm of the SQL databases that gets the requests the in-memory
\* databases get, and the id the server's clients know it by: the first
\* realm created.
ProdRealm == "prod"

MatchNext ==
    \/ DoCreateRealm(ProdRealm)
    \/ \E n \in MatchNets : DoPrefixCreate(ProdRealm, n)
    \/ \E n \in MatchNets : DoPrefixDelete(ProdRealm, n)

\* One realm, prefixes of both families created and deleted in any order.
MatchSpec == Init /\ [][MatchNext]_vars

\* ------------------------------------------------------------ the profiles side by side

ProdRealmID == 1

\* The realm is created in both SQL databases.
CreateRealmInBoth ==
    /\ sql' = CreateRealm(sql, ProdRealm).s
    /\ srv' = createRealm(srv, ProdRealm).s
    /\ UNCHANGED <<db, testVars, exportVars, req>>

\* One prefix is added to every database: AddAllocation, AddSubnet,
\* Prefix.Create and the server's createPrefix.
CreateInAll(n) ==
    LET r == PrefixCreate(sql, ProdRealm, n)
        c == createPrefix(srv, ProdRealmID, n)
        b == AddSubnet(sdb, n, [domain |-> <<>>, pattern |-> <<>>]).d
    IN  /\ r.err # OK \/ NextRowId({x.prefix_id : x \in sql.prefixes}) <= MaxPrefixId
        /\ c.err # OK \/ NextRowId({x.prefix_id : x \in srv.prefixes}) <= MaxPrefixId
        /\ db' = AddAllocation(db, n).d
        /\ sdb' = b
        /\ dirty' = (dirty \/ b # sdb)
        /\ sql' = r.s
        /\ srv' = c.s
        /\ UNCHANGED <<testVars, today, out, req>>

\* One prefix is deleted from every database that stores it, looked up by
\* its exact CIDR: RemoveAllocation, Subnet.Delete, Prefix.Delete (which
\* always reparents) and the server's deletePrefix.
DeleteInAll(n, recursive) ==
    LET alloc == FindAllocation(db, n, TRUE)
        s     == DBSubnet(sdb, n, TRUE)
        b     == IF s = NIL THEN sdb ELSE SubnetDelete(sdb, s, recursive)
        row   == {x \in srv.prefixes : x.realm_id = ProdRealmID /\ x.prefix = NetString(n)}
    IN  /\ db' = IF alloc = NIL THEN db ELSE RemoveAllocation(db, alloc, ~recursive).d
        /\ sdb' = b
        /\ dirty' = (dirty \/ b # sdb)
        /\ sql' = PrefixDelete(sql, ProdRealm, n).s
        /\ srv' = IF row = {} THEN srv
                  ELSE deletePrefix(srv, ProdRealmID, (CHOOSE x \in row : TRUE).prefix_id,
                                    recursive).s
        /\ UNCHANGED <<testVars, today, out, req>>

\* The prefixes every database accepts: those of Nets that are not a single
\* host address.
ChainNets == {n \in Nets : n.ones # n.bits}

ProfilesNext ==
    \/ CreateRealmInBoth
    \/ \E n \in ChainNets : CreateInAll(n)
    \/ \E n \in ChainNets, recursive \in BOOLEAN : DeleteInAll(n, recursive)
    \/ \E ip \in IPs : DoAddHost(<<ip>>)

\* The same prefixes added to and deleted from every database, hosts of one
\* address added to the first in-memory one.
ProfilesSpec == Init /\ [][ProfilesNext]_vars


\* ------------------------------------------------------------ the server's prefixes

\* POST /api/realms.
DoServerCreateRealm(name) ==
    /\ srv' = createRealm(srv, name).s
    /\ UNCHANGED <<db, testVars, exportVars, sql, req>>

\* POST /api/realms/{RealmID}/prefixes.
DoServerCreatePrefix(realmID, n) ==
    LET c == createPrefix(srv, realmID, n)
    IN  /\ c.err # OK \/ NextRowId({x.prefix_id : x \in srv.prefixes}) <= MaxPrefixId
        /\ srv' = c.s
        /\ UNCHANGED <<db, testVars, exportVars, sql, req>>

\* PUT /api/realms/{RealmID}/prefixes/{PrefixID}.
DoServerEditPrefix(realmID, prefixID, n) ==
    /\ srv' = editPrefix(srv, realmID, prefixID, n).s
    /\ UNCHANGED <<db, testVars, exportVars, sql, req>>

\* DELETE /api/realms/{RealmID}/prefixes/{PrefixID}, with ?recursive or not.
DoServerDeletePrefix(realmID, prefixID, recursive) ==
    /\ srv' = deletePrefix(srv, realmID, prefixID, recursive).s
    /\ UNCHANGED <<db, testVars, exportVars, sql, req>>

ServerNext ==
    \/ DoServerCreateRealm(ProdRealm)
    \/ \E n \in RelNets : DoServerCreatePrefix(ProdRealmID, n)
    \/ \E id \in 1..MaxPrefixId, n \in RelNets : DoServerEditPrefix(ProdRealmID, id, n)
    \/ \E id \in 1..MaxPrefixId, recursive \in BOOLEAN :
           DoServerDeletePrefix(ProdRealmID, id, recursive)

\* Prefixes created, edited and deleted through the server, in any order.
ServerSpec == Init /\ [][ServerNext]_vars


\* ------------------------------------------------------------ hosts edited

\* The hosts the callers add and put: every address list with the
\* attributes of each of HostInputs.
EditInputs == {[addrs |-> a, attrs |-> in.attrs] : a \in AddrLists, in \in HostInputs}

\* PUT /api/hosts/<ip>.
DoHostPut(ip, in) ==
    LET r == HostPut(sdb, ip, in.addrs, in.attrs)
    IN  /\ DBHost(sdb, ip) # NIL
        /\ Mutated(r.d)

HostEditNext ==
    \/ \E in \in EditInputs : DoAddHost2(in)
    \/ \E ip \in IPs : DoHostDelete(ip)
    \/ \E ip \in IPs, in \in EditInputs : DoHostPut(ip, in)
    \/ Tick

\* Hosts added, edited and deleted through the server, the clock running.
HostEditSpec == Init /\ [][HostEditNext]_vars

\* ============================================================ properties
\* The notions the properties are stated in are defined on the bits of the
\* addresses, apart from the program's own containment and lookup code.

\* A prefix or an address in 128 bits: the 16-byte address, the number of
\* leading bits that count, and the family.
Wide(n) == [addr |-> To16(n.IP), len |-> n.ones + (V6Bits - n.bits), v4 |-> n.bits = V4Bits]

WideAddr(ip) == [addr |-> To16(ip), len |-> V6Bits, v4 |-> To4(ip) # NIL]

\* Bit i of a 16-byte address, the first bit being bit 1.
Bit(addr, i) == (addr[((i - 1) \div 8) + 1] \div (2 ^ (7 - ((i - 1) % 8)))) % 2

\* w covers x: same family, w no longer than x, and the bits of w that count
\* are those of x.
Covers(w, x) ==
    /\ w.v4 = x.v4
    /\ w.len <= x.len
    /\ \A i \in 1..w.len : Bit(w.addr, i) = Bit(x.addr, i)

StrictlyCovers(w, x) == Covers(w, x) /\ w.len < x.len

SameCIDR(w, x) == Covers(w, x) /\ Covers(x, w)

\* The stored prefixes that strictly contain the stored prefix a.
Containers(d, a) ==
    {c \in Live(d) : StrictlyCovers(Wide(d.alloc[c].Net), Wide(d.alloc[a].Net))}

\* The stored prefixes that contain the address ip.
ContainersOfAddr(d, ip) ==
    {c \in Live(d) : Covers(Wide(d.alloc[c].Net), WideAddr(ip))}

\* p is the smallest of the prefixes C: one of them, covered by all of them.
SmallestOf(d, p, C) ==
    /\ p \in C
    /\ \A c \in C : Covers(Wide(d.alloc[c].Net), Wide(d.alloc[p].Net))

\* C1: every stored prefix is a root with no parent when no stored prefix
\* strictly contains it, and otherwise its parent is the smallest stored
\* prefix that strictly contains it, and it is in that parent's child list.
ParentIsSmallestContainer ==
    \A a \in Live(db) :
        IF Containers(db, a) = {}
        THEN /\ db.alloc[a].parent = NIL
             /\ \E i \in 1..Len(db.Allocs) : db.Allocs[i] = a
        ELSE /\ db.alloc[a].parent # NIL
             /\ SmallestOf(db, db.alloc[a].parent, Containers(db, a))
             /\ \E i \in 1..Len(db.alloc[db.alloc[a].parent].Children) :
                    db.alloc[db.alloc[a].parent].Children[i] = a

\* A forest three levels deep beside another root: some prefix has two
\* strict containers, and some root has none.
NestedForest ==
    /\ \E a \in Live(db) : Cardinality(Containers(db, a)) >= 2
    /\ Len(db.Allocs) >= 2

\* C2: the parent prefix recorded for every address of every registered host
\* is the deepest stored prefix that contains the address, or none when no
\* stored prefix contains it.
BackReferencesAreDeepest ==
    \A h \in Range(db.Hosts) :
        \A ip \in DOMAIN db.host[h].parents :
            IF ContainersOfAddr(db, ip) = {}
            THEN db.host[h].parents[ip] = NIL
            ELSE SmallestOf(db, db.host[h].parents[ip], ContainersOfAddr(db, ip))

\* The CIDRs a database stores.
NetsOf(d) == {d.alloc[a].Net : a \in Live(d)}

NoNet == [IP |-> <<>>, ones |-> 0, bits |-> 0]

\* The parent of every stored prefix, by CIDR.
ParentNets(d) ==
    {<<d.alloc[a].Net,
       IF d.alloc[a].parent = NIL THEN NoNet ELSE d.alloc[d.alloc[a].parent].Net>> :
        a \in Live(d)}

\* Two databases hold the same forest: the same roots in the same order,
\* under each prefix the same children in the same order, and the same
\* parent for each prefix.
SameForest(d1, d2) ==
    /\ mkTextTree(d1, d1.Allocs) = mkTextTree(d2, d2.Allocs)
    /\ ParentNets(d1) = ParentNets(d2)

\* C3: two databases that were given the same set of prefixes, each in its
\* own order, hold the same forest.
InsertionOrderInvariant ==
    (phase = "add" /\ NetsOf(db) = NetsOf(golden)) => SameForest(db, golden)

\* Both databases hold every range, the second one added in the reverse of
\* the first one's order.
BuiltInReverse ==
    /\ phase = "add"
    /\ Cardinality(Live(golden)) = Len(ranges)
    /\ Len(rangesInOrder) = Len(ranges)
    /\ \A i \in 1..Len(ranges) : rangesInOrder[i] = ranges[Len(ranges) + 1 - i]

\* The lists of siblings: the roots, and the children of each stored prefix.
SiblingLists(d) == {d.Allocs} \cup {d.alloc[a].Children : a \in Live(d)}

\* C4: no two prefixes of one sibling list (the roots included) contain one
\* another, and no two stored prefixes have the same CIDR.
SiblingsNeverOverlap ==
    /\ \A s \in SiblingLists(db) :
          \A i, j \in 1..Len(s) :
              i # j => ~Covers(Wide(db.alloc[s[i]].Net), Wide(db.alloc[s[j]].Net))
    /\ \A a, b \in Live(db) :
          a # b => ~SameCIDR(Wide(db.alloc[a].Net), Wide(db.alloc[b].Net))

\* Several roots, and a prefix with several children.
SiblingsAtTwoLevels ==
    /\ Len(db.Allocs) >= 2
    /\ \E a \in Live(db) : Len(db.alloc[a].Children) >= 2

\* C5: once the same prefix has been deleted with reparenting from two
\* databases built in different orders, the two hold the same forest; so
\* after every single deletion.
LockstepDeletesAgree ==
    (phase = "delete" /\ rangesInOrder # <<>>) => SameForest(db, golden)

\* The root of all was deleted first, another prefix after it, and prefixes
\* are left.
DeletedFromTheTop ==
    /\ phase = "delete"
    /\ Len(rangesInOrder) >= 2
    /\ rangesInOrder[1] = ranges[1]
    /\ Live(db) # {}
    /\ \E a \in Live(db) : db.alloc[a].Children # <<>>

\* The serial the zone text carries: the one of its SOA line.
SerialOf(zone) == {zone[i].addr : i \in {j \in 1..Len(zone) : zone[j].rr = "SOA"}}

\* A step that is an export that returned a text: no handler that changes
\* the database and no tick of the clock ends with dirty unset, except as a
\* step that changes nothing.
\* C6: an export made when nothing has changed the database since the last
\* export returns the text the last one returned, and leaves every domain's
\* serial as it was.
RepeatedExportIsStable ==
    [][(~dirty /\ out # <<>> /\ ~dirty' /\ today' = today)
          => /\ out' = out
             /\ \A name \in DOMAIN sdb.Domains :
                    sdb'.Domains[name].Serial = sdb.Domains[name].Serial]_vars

\* What the stored hash says: the last export of the domain returned one of
\* the texts the database renders to now.
RendersAsExported(d, name) ==
    \E r \in export(d, d.Domains[name]) : r.err = OK /\ zoneHash(r.zone) = d.Domains[name].LastHash

\* The serial after z, on the day now: the counter one up on the same day,
\* the first serial of the day on a later one.
NextSerial(z, now) ==
    IF z.date = now THEN [date |-> z.date, inc |-> z.inc + 1] ELSE [date |-> now, inc |-> 0]

\* C7: an export that returns, made after the database has changed so that
\* the domain renders to no text the last export could have stored, moves
\* the domain's serial to the next serial, once, and the text it returns
\* carries that serial.
ChangedExportBumpsSerial ==
    [][(dirty /\ ~dirty' /\ \A name \in DomainNames :
            name \in DOMAIN sdb.Domains /\ ~RendersAsExported(sdb, name))
          => \A name \in DomainNames :
                /\ sdb'.Domains[name].Serial = NextSerial(sdb.Domains[name].Serial, today)
                /\ SerialOf(out') = {SerialString(sdb'.Domains[name].Serial)}]_vars

\* A second serial of one day is out: exported, with a host in the zone, and
\* nothing changed since.
SecondSerialOfTheDay ==
    /\ out # <<>>
    /\ ~dirty
    /\ sdb.Hosts # <<>>
    /\ \E i \in 1..Len(out) : out[i].rr \in {"A", "CNAME"}
    /\ \A name \in DOMAIN sdb.Domains :
          /\ sdb.Domains[name].Serial.inc >= 1
          /\ SerialOf(out) = {SerialString(sdb.Domains[name].Serial)}

\* An add of n is one the program must reject: n is a single host address,
\* or a prefix of the same CIDR is stored.
MustReject(d, n) ==
    \/ n.ones = n.bits
    \/ \E a \in Live(d) : SameCIDR(Wide(d.alloc[a].Net), Wide(n))

\* C8: an add of a single host address, or of a CIDR that is stored, fails
\* and leaves the database (forest, host list, address index, back
\* references) as it was.
RejectedAddChangesNothing ==
    \A n \in Nets :
        MustReject(db, n) => /\ AddAllocation(db, n).err # OK
                             /\ AddAllocation(db, n).d = db

\* A stored CIDR can be added again to a forest of several prefixes that
\* has a host in a host bag.
DuplicateOverHosts ==
    /\ \E n \in Nets : n.ones # n.bits /\ MustReject(db, n)
    /\ Cardinality(Live(db)) >= 2
    /\ \E h \in Range(db.Hosts) : \E ip \in DOMAIN db.host[h].parents :
          db.host[h].parents[ip] \in Live(db)

\* The registered host h has the address ip in its list.
Owns(d, h, ip) == \E i \in 1..Len(d.host[h].Addrs) : To16(d.host[h].Addrs[i]) = To16(ip)

\* C9: no address is in the lists of two registered hosts, and the address
\* index maps every address of every registered host to that host.
AddressesAreUnique ==
    /\ \A h1, h2 \in Range(db.Hosts) :
          h1 # h2 => \A ip \in IPs : ~(Owns(db, h1, ip) /\ Owns(db, h2, ip))
    /\ \A h \in Range(db.Hosts) : \A ip \in IPs :
          Owns(db, h, ip) => /\ To16(ip) \in DOMAIN db.hostLookup
                             /\ db.hostLookup[To16(ip)] = h

\* Two hosts are registered, each with an address.
TwoHostsWithAddresses ==
    /\ Len(db.Hosts) = 2
    /\ db.Hosts[1] # db.Hosts[2]
    /\ \A i \in 1..2 : db.host[db.Hosts[i]].Addrs # <<>>

\* Some registered host owns ip.
Owned(d, ip) == \E h \in Range(d.Hosts) : Owns(d, h, ip)

\* C10: adding a host with a listed address that a registered host owns
\* fails and leaves the database (host list, address index, host bags) as
\* it was.
TakenAddressRejectsHost ==
    \A addrs \in AddrLists :
        (\E i \in 1..Len(addrs) : Owned(db, addrs[i]))
            => /\ AddHost(db, addrs).err # OK
               /\ AddHost(db, addrs).d = db

\* A list whose first address is free and inside a stored prefix, and whose
\* second address is owned.
FreeThenTaken ==
    \E addrs \in AddrLists :
        /\ Len(addrs) = 2
        /\ ~Owned(db, addrs[1])
        /\ ContainersOfAddr(db, addrs[1]) # {}
        /\ Owned(db, addrs[2])

\* The parent prefix every registered host records for each of its addresses,
\* by CIDR.
BackRefNets(d) ==
    UNION {{<<h, ip, IF d.host[h].parents[ip] = NIL THEN NoNet
                     ELSE d.alloc[d.host[h].parents[ip]].Net>> :
               ip \in DOMAIN d.host[h].parents} : h \in Range(d.Hosts)}

\* The database after the stored allocation a is removed with its children
\* reparented and its CIDR is added again.
ReAdded(d, a) ==
    AddAllocation(RemoveAllocation(d, a, TRUE).d, d.alloc[a].Net).d

\* C11: removing a stored prefix with reparenting and adding the same CIDR
\* again leaves every host address with the parent prefix it had before,
\* and every prefix with the parent it had before.
ReAddRestores ==
    \A a \in Live(db) :
        /\ BackRefNets(ReAdded(db, a)) = BackRefNets(db)
        /\ ParentNets(ReAdded(db, a)) = ParentNets(db)

\* A chain of three prefixes, a host address in the bag of a prefix that has
\* a parent, and one in the bag of a root.
HostsAtTwoDepths ==
    /\ \E a \in Live(db) : db.alloc[a].parent # NIL /\ db.alloc[a].Children # <<>>
    /\ \E a \in Live(db) : db.alloc[a].parent # NIL /\ DOMAIN db.alloc[a].hosts # {}
    /\ \E a \in Live(db) : db.alloc[a].parent = NIL /\ DOMAIN db.alloc[a].hosts # {}

\* The in-memory database stores the CIDR n.
Stored(d, n) == \E a \in Live(d) : SameCIDR(Wide(d.alloc[a].Net), Wide(n))

\* The rows of the prefixes of the realm named realm.
RowsOf(s, realm) ==
    {r \in s.prefixes : \E m \in s.realms : m.name = realm /\ m.realm_id = r.realm_id}

\* The CIDR a row stores, in 128 bits.
WideRow(r) == Wide(ParseCIDR(r.prefix))

\* The realm stores the CIDR n.
StoredIn(s, realm, n) == \E r \in RowsOf(s, realm) : SameCIDR(WideRow(r), Wide(n))

\* RemoveAllocation called with an Allocation of the CIDR n that the caller
\* made, one the database does not hold.
RemoveDetached(d, n, reparent) ==
    With(NewAllocRef(d, n), LAMBDA a :
    With(RemoveAllocation([d EXCEPT !.alloc = MapPut(@, a, Removed(n))], a, reparent),
         LAMBDA r : [d |-> Collect(r.d), err |-> r.err]))

RECURSIVE LaterDBs(_)
LaterDBs(S) ==
    IF S = {} THEN {NewDB}
    ELSE UNION {{AddSubnet(d, n, [domain |-> <<>>, pattern |-> <<>>]).d :
                    d \in LaterDBs(S \ {n})} : n \in S}

\* The CIDRs and addresses looked up: every CIDR of the runs, and every
\* address as the CIDR of that one address.
Lookups == TreeNets \cup {hostToNet(ip) : ip \in IPs}

\* The stored prefixes that contain q, q itself included when it is stored.
ContainersOrSelf(d, q) == {c \in Live(d) : Covers(Wide(d.alloc[c].Net), Wide(q))}

\* C13: FindAllocation(q, false), and DB.Subnet(q, false) of the later
\* database holding the same CIDRs, return none when no stored prefix
\* contains q (q itself counts), and otherwise the longest stored prefix
\* that contains q.
LookupIsLongestContainer ==
    \A q \in Lookups :
        /\ IF ContainersOrSelf(db, q) = {}
           THEN FindAllocation(db, q, FALSE) = NIL
           ELSE /\ FindAllocation(db, q, FALSE) # NIL
                /\ SmallestOf(db, FindAllocation(db, q, FALSE), ContainersOrSelf(db, q))
        /\ \A d2 \in LaterDBs(NetsOf(db)) :
              IF ContainersOrSelf(db, q) = {}
              THEN DBSubnet(d2, q, FALSE) = NIL
              ELSE /\ DBSubnet(d2, q, FALSE) # NIL
                   /\ \E c \in ContainersOrSelf(db, q) :
                         /\ SmallestOf(db, c, ContainersOrSelf(db, q))
                         /\ SameCIDR(Wide(d2.subnet[DBSubnet(d2, q, FALSE)].Net),
                                     Wide(db.alloc[c].Net))

\* One forest answers the three cases: a CIDR that is stored under two
\* containers, an address that three nested prefixes contain, and a CIDR
\* that nothing contains.
ThreeKindsOfLookup ==
    /\ \E q \in Lookups : Stored(db, q) /\ Cardinality(ContainersOrSelf(db, q)) >= 3
    /\ \E q \in Lookups : ~Stored(db, q) /\ q.ones = q.bits
                          /\ Cardinality(ContainersOrSelf(db, q)) >= 3
    /\ \E q \in Lookups : ContainersOrSelf(db, q) = {}
    /\ \E a \in Live(db) : Len(db.alloc[a].Children) >= 2

\* The rows of the realm that strictly contain the CIDR q.
StrictContainerRows(s, realm, q) ==
    {r \in RowsOf(s, realm) : StrictlyCovers(WideRow(r), Wide(q))}

\* The sequence m lists the rows R, each once, the longest first.
ListsDeepestFirst(m, R) ==
    /\ Len(m) = Cardinality(R)
    /\ \A r \in R : \E i \in 1..Len(m) : SameCIDR(Wide(m[i]), WideRow(r))
    /\ \A i, j \in 1..Len(m) : i < j => Wide(m[i]).len > Wide(m[j]).len

\* C14: GetMatches for a prefix returns the stored prefixes of the realm
\* that strictly contain it, each once, the deepest first; the prefix
\* itself is not among them.  (A query that ends in an error returns no
\* prefix.)
AncestorsAreStrictContainers ==
    \A realm \in RealmNames, q \in RelNets :
        ListsDeepestFirst(GetMatches(sql, realm, q).matches,
                          StrictContainerRows(sql, realm, q))

\* C15: the parent_id of every row is NULL when no row of its realm strictly
\* contains its prefix, and otherwise names the smallest row of its realm
\* that strictly contains it.
ParentIdIsSmallestContainer ==
    \A realm \in RealmNames :
        \A r \in RowsOf(sql, realm) :
            IF StrictContainerRows(sql, realm, ParseCIDR(r.prefix)) = {}
            THEN r.parent_id = NIL
            ELSE \E p \in StrictContainerRows(sql, realm, ParseCIDR(r.prefix)) :
                    /\ r.parent_id = <<p.prefix_id>>
                    /\ \A c \in StrictContainerRows(sql, realm, ParseCIDR(r.prefix)) :
                           Covers(WideRow(c), WideRow(p))

\* The parent of every subnet of the later database, by CIDR.
SubnetParentNets(d) ==
    {<<d.subnet[s].Net,
       IF d.subnet[s].Parent = NIL THEN NoNet ELSE d.subnet[d.subnet[s].Parent].Net>> :
        s \in SubnetsUnder(d, d.Subnets)}

\* The pairs of P whose prefix top does not contain.
OutsideOf(P, top) == {pr \in P : ~Covers(Wide(top), Wide(pr[1]))}

\* RemoveAllocation(a, false): no prefix inside a's, a's included, is found
\* by exact lookup afterwards, and the prefixes outside are those there
\* were, each with the parent it had.
CascadeInForest ==
    \A a \in Live(db) :
        /\ \A x \in Live(db) :
              Covers(Wide(db.alloc[a].Net), Wide(db.alloc[x].Net))
                  => FindAllocation(RemoveAllocation(db, a, FALSE).d, db.alloc[x].Net, TRUE) = NIL
        /\ ParentNets(RemoveAllocation(db, a, FALSE).d)
               = OutsideOf(ParentNets(db), db.alloc[a].Net)

\* Subnet.Delete(true): the same, of the later database.
CascadeInSubnets ==
    \A s \in SubnetsUnder(sdb, sdb.Subnets) :
        /\ \A x \in SubnetsUnder(sdb, sdb.Subnets) :
              Covers(Wide(sdb.subnet[s].Net), Wide(sdb.subnet[x].Net))
                  => DBSubnet(SubnetDelete(sdb, s, TRUE), sdb.subnet[x].Net, TRUE) = NIL
        /\ SubnetParentNets(SubnetDelete(sdb, s, TRUE))
               = OutsideOf(SubnetParentNets(sdb), sdb.subnet[s].Net)

\* The server's deletePrefix with recursive: no row of the realm with a
\* prefix inside the deleted one is left, and the rows outside are those
\* there were, each with the parent_id it had.
CascadeInServer ==
    \A p \in RowsOf(srv, ProdRealm) :
        /\ \A x \in RowsOf(srv, ProdRealm) :
              Covers(WideRow(p), WideRow(x))
                  => ~\E r \in RowsOf(deletePrefix(srv, p.realm_id, p.prefix_id, TRUE).s, ProdRealm) :
                         r.prefix = x.prefix
        /\ \A y \in RowsOf(srv, ProdRealm) :
              ~Covers(WideRow(p), WideRow(y))
                  => y \in deletePrefix(srv, p.realm_id, p.prefix_id, TRUE).s.prefixes

\* C16: a recursive delete of a stored prefix removes the prefix and every
\* stored prefix inside it, none of them being found by exact lookup
\* afterwards, and leaves every prefix outside it stored with the parent it
\* had: RemoveAllocation(a, false), Subnet.Delete(true) and the server's
\* deletePrefix with recursive.
CascadeDeleteRemovesSubtree ==
    /\ CascadeInForest
    /\ CascadeInSubnets
    /\ CascadeInServer

\* A request about to increment holds the text whose serial the domain
\* still has: no other request has incremented for the same change.
IncrementsOnce ==
    \A t \in Handlers :
        req[t].pc = "inc"
            => SerialOf(req[t].zone) = {SerialString(sdb.Domains[req[t].name].Serial)}

\* The stored hash is the hash of a text that carries the domain's serial.
HashCarriesSerial(d, name) ==
    \E r \in export(d, d.Domains[name]) :
        /\ r.err = OK
        /\ zoneHash(r.zone) = d.Domains[name].LastHash
        /\ SerialOf(r.zone) = {SerialString(d.Domains[name].Serial)}

\* C17: export requests of one domain that run at the same time after one
\* change of the content increment the serial once, and when they are over
\* the stored hash is the hash of the text that carries that serial.
ConcurrentExportsSerialized ==
    /\ IncrementsOnce
    /\ (Quiet /\ ~dirty /\ out # <<>>)
          => \A name \in DOMAIN sdb.Domains : HashCarriesSerial(sdb, name)

\* The place of host h in the list of hosts of d.
HostIndex(d, h) == CHOOSE i \in 1..Len(d.Hosts) : d.Hosts[i] = h

\* Two databases with the same forest, the same hosts and addresses, the
\* same address index and the same parent prefix of every address.  A
\* Subnet is named by the key of the map that holds it, a host by its place
\* in the list of hosts.
SameDatabase(a, b) ==
    /\ a.Subnets = b.Subnets
    /\ DOMAIN a.subnet = DOMAIN b.subnet
    /\ \A k \in DOMAIN a.subnet :
          /\ a.subnet[k].Net = b.subnet[k].Net
          /\ a.subnet[k].Subnets = b.subnet[k].Subnets
          /\ a.subnet[k].Parent = b.subnet[k].Parent
    /\ Len(a.Hosts) = Len(b.Hosts)
    /\ \A i \in 1..Len(a.Hosts) :
          /\ DOMAIN a.host[a.Hosts[i]].Addrs = DOMAIN b.host[b.Hosts[i]].Addrs
          /\ \A k \in DOMAIN a.host[a.Hosts[i]].Addrs :
                /\ IPEqual(a.host[a.Hosts[i]].Addrs[k], b.host[b.Hosts[i]].Addrs[k])
                /\ HostParent(a, a.Hosts[i], a.host[a.Hosts[i]].Addrs[k])
                       = HostParent(b, b.Hosts[i], b.host[b.Hosts[i]].Addrs[k])
    /\ DOMAIN a.ipToHost = DOMAIN b.ipToHost
    /\ \A k \in DOMAIN a.ipToHost :
          HostIndex(a, a.ipToHost[k]) = HostIndex(b, b.ipToHost[k])

\* C18: the database dumps, the dump loads, and the database loaded has the
\* forest, the hosts and their addresses, the address index and the parent
\* prefix of every address of the database dumped.
LoadOfDumpIsSame ==
    /\ Bytes(sdb).err = OK
    /\ LoadBytes(Bytes(sdb).doc).err = OK
    /\ SameDatabase(LoadBytes(Bytes(sdb).doc).d, sdb)

\* A database with a domain, a subnet inside a subnet, and a host with an
\* address inside a subnet.
DumpedNestedWithHost ==
    /\ \E k \in DOMAIN sdb.subnet : sdb.subnet[k].Parent # NIL
    /\ \E i \in 1..Len(sdb.Hosts) :
          \E k \in DOMAIN sdb.host[sdb.Hosts[i]].Addrs :
              HostParent(sdb, sdb.Hosts[i], sdb.host[sdb.Hosts[i]].Addrs[k]) # NIL
    /\ sdb.Domains # EmptyMap

\* The sets of siblings of d: the root map and the map of every subnet.
SiblingSets(d) == {d.Subnets} \cup {d.subnet[k].Subnets : k \in DOMAIN d.subnet}

\* Every subnet of a map lies inside the subnet that holds the map, and is
\* not the same CIDR.
ChildrenStrictlyInside(d) ==
    \A k \in DOMAIN d.subnet : \A c \in d.subnet[k].Subnets :
        /\ ContainsIPNet(d.subnet[k].Net, d.subnet[c].Net)
        /\ ~NetStringEqual(d.subnet[k].Net, d.subnet[c].Net)

\* No subnet of a map contains another subnet of the same map.
SiblingsDisjoint(d) ==
    \A S \in SiblingSets(d) : \A a, b \in S :
        a # b => ~ContainsIPNet(d.subnet[a].Net, d.subnet[b].Net)

\* No address belongs to two hosts.
NoSharedAddress(d) ==
    \A i, j \in 1..Len(d.Hosts) :
        i # j => DOMAIN d.host[d.Hosts[i]].Addrs \cap DOMAIN d.host[d.Hosts[j]].Addrs = {}

\* C19: a database that LoadBytes returned has every nested subnet strictly
\* inside its container, no two siblings that overlap, and no address owned
\* by two hosts.
LoadedIsValid ==
    /\ ChildrenStrictlyInside(sdb)
    /\ SiblingsDisjoint(sdb)
    /\ NoSharedAddress(sdb)

\* Serial a is before serial b in the order of the day, then the counter.
SerialLess(a, b) == a.date < b.date \/ (a.date = b.date /\ a.inc < b.inc)

\* C20: an Inc that returns leaves the serial of a domain greater, in the
\* order of the day and then the counter, than the serial it found: so it
\* is for the Inc of every domain made on the day that is.
IncLeavesSerialGreater ==
    \A name \in DOMAIN sdb.Domains :
        ~ZoneSerialInc(sdb.Domains[name].Serial, today).panic
            => SerialLess(sdb.Domains[name].Serial,
                          ZoneSerialInc(sdb.Domains[name].Serial, today).z)

\* The serials a domain's serial is compared with: any day up to MaxDay,
\* any counter up to MaxSerial.
OtherSerials == [date : 0..MaxDay, inc : 0..MaxSerial]

\* C21: Before(z, oz) is true exactly when z is before oz in the order of
\* the day, then the counter: z's day is earlier, or the days are the same
\* and z's counter is smaller.
BeforeIsLexicographic ==
    \A name \in DOMAIN sdb.Domains : \A oz \in OtherSerials :
        /\ ZoneSerialBefore(sdb.Domains[name].Serial, oz) <=> SerialLess(sdb.Domains[name].Serial, oz)
        /\ ZoneSerialBefore(oz, sdb.Domains[name].Serial) <=> SerialLess(oz, sdb.Domains[name].Serial)

\* C22: on the day of the serial, Inc succeeds and adds one while the
\* counter is below 99; at 99 it fails, the failure a value it returns and
\* not a panic, the serial left as it was.
OverflowIsAnErrorValue ==
    \A name \in DOMAIN sdb.Domains :
        sdb.Domains[name].Serial.date = today
            => /\ sdb.Domains[name].Serial.inc < SerialOverflow
                    => /\ ~ZoneSerialInc(sdb.Domains[name].Serial, today).panic
                       /\ ZoneSerialInc(sdb.Domains[name].Serial, today).z
                              = [date |-> today, inc |-> sdb.Domains[name].Serial.inc + 1]
               /\ sdb.Domains[name].Serial.inc = SerialOverflow
                    => /\ ~ZoneSerialInc(sdb.Domains[name].Serial, today).panic
                       /\ ZoneSerialInc(sdb.Domains[name].Serial, today).z
                              = sdb.Domains[name].Serial

\* The serial of the domain of a row, or none if the row is not there.
RowSerials(s, r) == {x.serial : x \in {y \in s.domains : y.realm_id = r.realm_id /\ y.name = r.name}}

\* C23: the serial of a domain changes only in an export whose text is not
\* the text of the last export: in the later database only in a step that
\* exports what renders to no text of the stored hash, and in the table of
\* domains, which nothing exports, in no step.
SerialChangesOnlyOnExport ==
    [][/\ \A name \in (DOMAIN sdb.Domains) \cap (DOMAIN sdb'.Domains) :
              sdb'.Domains[name].Serial # sdb.Domains[name].Serial
                  => ~dirty' /\ ~RendersAsExported(sdb, name)
       /\ \A r \in sql.domains :
              RowSerials(sql', r) # {} => RowSerials(sql', r) = {r.serial}]_vars

\* The domain is named by a CIDR whose length is not a multiple of 8.
Unaligned(name) ==
    /\ ParseCIDRName(name).err = OK
    /\ ParseCIDRName(name).net.ones % 8 # 0

\* C24: an export of a reverse zone whose prefix length is not a multiple
\* of 8 fails, forced or not, and leaves the serial and the stored hash of
\* the domain as they were.
UnalignedReverseExportFails ==
    \A name \in DOMAIN sdb.Domains :
        Unaligned(name)
            => \A force \in BOOLEAN : \A r \in ExportZone(sdb, name, force, today) :
                   /\ r.err # OK
                   /\ r.d.Domains[name].Serial = sdb.Domains[name].Serial
                   /\ r.d.Domains[name].LastHash = sdb.Domains[name].LastHash

\* Two reverse zones over one host, the /24 exported and the /28 as it was
\* made.
UnalignedBesideExported ==
    /\ sdb.Hosts # <<>>
    /\ \E name \in DOMAIN sdb.Domains :
          /\ Unaligned(name)
          /\ sdb.Domains[name].Serial = ZeroSerial
          /\ sdb.Domains[name].LastHash = <<>>
    /\ \E name \in DOMAIN sdb.Domains :
          /\ ~Unaligned(name)
          /\ sdb.Domains[name].LastHash # <<>>
          /\ \E i \in 1..Len(out) : out[i].rr = "PTR"

\* The rows of the realm whose prefix contains q, by PrefixContains.
ContainingRows(s, realm, q) ==
    {r \in PrefixesOf(s, realm) : PrefixContains(ParseCIDR(r.prefix), q)}

\* C25: for every CIDR looked up, GetLongestMatch returns what containment
\* of CIDRs gives: the longest stored prefix of the realm that contains the
\* CIDR, or no prefix and an error when none does.
LongestMatchIsContainment ==
    \A q \in MatchQueries :
        IF ContainingRows(sql, ProdRealm, q) = {}
        THEN GetLongestMatch(sql, ProdRealm, q).err # OK
        ELSE /\ GetLongestMatch(sql, ProdRealm, q).err = OK
             /\ GetLongestMatch(sql, ProdRealm, q).p
                    = ParseCIDR(LongestOf(ContainingRows(sql, ProdRealm, q)).prefix)


\* ------------------------------------------------------------ realms apart

\* The database with the prefixes of the other realms taken away.
OnlyRealm(s, realm) == [s EXCEPT !.prefixes = PrefixesOf(s, realm)]

\* C26: realms are disjoint: what Create, GetLongestMatch and GetMatches
\* answer in a realm is what they answer when the other realms hold no
\* prefix, so a CIDR stored in one realm can be stored in another and a
\* lookup returns only rows of its realm.
RealmsDisjoint ==
    \A realm \in RealmNames, n \in RelNets :
        /\ PrefixCreate(sql, realm, n).err = PrefixCreate(OnlyRealm(sql, realm), realm, n).err
        /\ GetLongestMatch(sql, realm, n) = GetLongestMatch(OnlyRealm(sql, realm), realm, n)
        /\ GetMatchesOfTable(sql, realm, n) = GetMatchesOfTable(OnlyRealm(sql, realm), realm, n)


\* ------------------------------------------------------------ the order of siblings

\* The order of the listing: IPv4 before IPv6, then the shorter prefix, then
\* the lower first address.
TotalLess(n, n2) ==
    IF isv4(n.IP) # isv4(n2.IP) THEN isv4(n.IP)
    ELSE IF n.ones # n2.ones THEN n.ones < n2.ones
    ELSE BytesLess(To16(FirstAddr(n)), To16(FirstAddr(n2)))

\* The allocations of s are listed in that order.
InTotalOrder(d, s) ==
    \A i \in 1..Len(s), j \in 1..Len(s) :
        i < j => TotalLess(d.alloc[s[i]].Net, d.alloc[s[j]].Net)

\* C27: the roots and the children of every allocation are listed family
\* first, then by prefix length, then by address, whatever was added or
\* removed before.
SiblingsInTotalOrder ==
    /\ InTotalOrder(db, db.Allocs)
    /\ \A a \in Live(db) : InTotalOrder(db, db.alloc[a].Children)


\* ------------------------------------------------------------ a host deleted

\* The hosts in the host bags of the stored allocations.
InBags(d) == UNION {Range(d.alloc[a].hosts) : a \in Live(d)}

\* C28: after a registered host is removed, none of its addresses resolves
\* to a host, the host is in no host bag of a stored prefix, and every
\* address of every other host still resolves to its owner.
RemovedHostIsGone ==
    \A h \in Range(db.Hosts) :
        With(RemoveHost(db, h), LAMBDA r :
            /\ r.err = OK
            /\ h \notin Range(r.d.Hosts)
            /\ \A i \in 1..Len(db.host[h].Addrs) : FindHost(r.d, db.host[h].Addrs[i]) = NIL
            /\ h \notin InBags(r.d)
            /\ \A o \in Range(db.Hosts) \ {h} :
                   /\ o \in Range(r.d.Hosts)
                   /\ \A i \in 1..Len(db.host[o].Addrs) :
                          FindHost(r.d, db.host[o].Addrs[i]) = o)

\* Two hosts are registered, one address each, and one of the hosts is in
\* the host bag of a nested allocation.
TwoHostsOneNested ==
    /\ Len(db.Hosts) = 2
    /\ \A i \in 1..2 : Len(db.host[db.Hosts[i]].Addrs) = 1
    /\ \E a \in Live(db) : db.alloc[a].parent # NIL /\ db.Hosts[1] \in Range(db.alloc[a].hosts)
    /\ db.Hosts[2] \in InBags(db)


\* ------------------------------------------------------------ a host without addresses

\* C29: adding a host with an empty address list fails, and the host list
\* and the address index stay as they were.
EmptyHostIsRejected ==
    \A in \in HostInputs :
        With(AddHost2(sdb, <<>>, in.attrs), LAMBDA r :
            /\ r.err # OK
            /\ r.d.Hosts = sdb.Hosts
            /\ r.d.ipToHost = sdb.ipToHost)


\* ------------------------------------------------------------ containment

\* The prefixes compared: the ones the callers name and the ones stored.
Compared == RelNets \cup MatchQueries \cup {ParseCIDR(r.prefix) : r \in sql.prefixes}

\* C30: a prefix contains another exactly when they are of one family, the
\* first is no longer than the second and the second masked to the length
\* of the first is the first; every prefix contains itself; two prefixes
\* that contain each other are the same prefix.
ContainsIsMaskedEquality ==
    \A a \in Compared, b \in Compared :
        /\ PrefixContains(a, b) <=> Covers(Wide(a), Wide(b))
        /\ ContainsNet(a, b) <=> Covers(Wide(a), Wide(b))
        /\ PrefixContains(a, a)
        /\ (PrefixContains(a, b) /\ PrefixContains(b, a)) => a = b

\* A realm stores a prefix under another one, beside a prefix of the other
\* family.
NestedBesideOtherFamily ==
    \E r \in sql.prefixes, p \in sql.prefixes, o \in sql.prefixes :
        /\ r.parent_id = <<p.prefix_id>>
        /\ dbIsSubnetOf(p.prefix, r.prefix)
        /\ ~dbIsSubnetOf(r.prefix, p.prefix)
        /\ o.realm_id = r.realm_id
        /\ isv4(ParseCIDR(o.prefix).IP) # isv4(ParseCIDR(r.prefix).IP)


\* ------------------------------------------------------------ prefixIsInside

\* C31: prefixIsInside(child, parent) holds only for a strict subnet:
\* between the prefixes the server stores it is true exactly when the
\* parent is shorter and covers the child, and never for a prefix and
\* itself.
PrefixIsInsideIsStrict ==
    \A c \in srv.prefixes, p \in srv.prefixes :
        dbPrefixIsInside(c.prefix, p.prefix) <=> StrictlyCovers(WideRow(p), WideRow(c))


\* ------------------------------------------------------------ reverse names of IPv6 hosts

\* The IPv6 zones and hosts compared: 2001::/16, 2001:db8::/32 and
\* 2001:db8::/120, the hosts 2001:db8::1 and 2001:db8::ab.
ArpaZones6 == {ParseCIDR6(Doc6(0), 16), ParseCIDR6(Doc6(0), 32), ParseCIDR6(Doc6(0), 120)}

ArpaHosts6 == {Doc6(1), Doc6(171)}

\* The IPv6 addresses of the registered hosts.
RegisteredV6(d) ==
    {a \in UNION {Range(d.host[h].Addrs) : h \in Range(d.Hosts)} : To4(a) = NIL}

\* Nibble k of a 16-byte address, the first being nibble 1.
Nibble(ip, k) == IF k % 2 = 1 THEN ip[(k + 1) \div 2] \div 16 ELSE ip[k \div 2] % 16

\* The nibbles k down to `end`+1 of ip, one hexadecimal digit each.
RECURSIVE nibbleLabels(_, _, _)
nibbleLabels(ip, k, end) ==
    IF k <= end THEN <<>>
    ELSE <<HexDigit[Nibble(ip, k) + 1]>> \o nibbleLabels(ip, k - 1, end)

\* C32: in an IPv6 reverse zone the host suffix is the nibbles of the
\* address beyond the prefix length, one hexadecimal digit a label, last
\* nibble first (so the low nibble of each byte before its high nibble).
ArpaHostIsNibbles ==
    \A z \in ArpaZones6, host \in ArpaHosts6 \cup RegisteredV6(sdb) :
        arpaHost(z, host) = nibbleLabels(host, V6Bits \div 4, z.ones \div 4)


\* ------------------------------------------------------------ the last address

\* The stored prefixes cut or stretched to every length of their family.
AtEveryLength(d) ==
    UNION {{[IP |-> d.alloc[a].Net.IP, ones |-> k, bits |-> d.alloc[a].Net.bits] :
               k \in 0..d.alloc[a].Net.bits} : a \in Live(d)}

\* The number of host bits of n in byte i: all 8, none, or what is left of
\* the byte after the prefix.
HostBitsIn(n, i) == Max(0, Min(8, 8 * i - n.ones))

\* C33: for a prefix of any length from 0 to the width of its family, the
\* last address is the first address with every host bit set; for a prefix
\* of the full width it is the address itself.
LastAddrSetsHostBits ==
    \A n \in AtEveryLength(db) :
        With(LastAddr(n), LAMBDA last :
        With(FirstAddr(n), LAMBDA first :
            /\ Len(last) = n.bits \div 8
            /\ \A i \in 1..(n.bits \div 8) : last[i] = first[i] + (2 ^ HostBitsIn(n, i)) - 1
            /\ n.ones = n.bits => IPEqual(last, n.IP)))

\* An IPv4 prefix and an IPv6 prefix are stored, one of them nested.
BothFamiliesStored ==
    /\ \E a \in Live(db) : isv4(db.alloc[a].Net.IP) /\ db.alloc[a].parent # NIL
    /\ \E a \in Live(db) : ~isv4(db.alloc[a].Net.IP)


\* ------------------------------------------------------------ the stored parents

\* The rows reached from the rows of `from` by following parent_id, the rows
\* of seen being left out.
RECURSIVE ParentsUp(_, _, _)
ParentsUp(rows, from, seen) ==
    With({p \in rows : \E r \in from : r.parent_id = <<p.prefix_id>>} \ seen, LAMBDA more :
        IF more = {} THEN seen ELSE ParentsUp(rows, more, seen \cup more))

\* The parent, the parent's parent and so on of the row r.
AncestorsOf(rows, r) == ParentsUp(rows, {r}, {})

\* C34: the parent relation the server stores is acyclic: no prefix is its
\* own parent or ancestor, and every prefix is a root or has a root among
\* its ancestors.
ParentsAreAcyclic ==
    \A r \in srv.prefixes :
        /\ r \notin AncestorsOf(srv.prefixes, r)
        /\ \E root \in AncestorsOf(srv.prefixes, r) \cup {r} : root.parent_id = NIL


\* ------------------------------------------------------------ a host edited

\* C35: an edit of a host that is rejected leaves the database as it was:
\* the host and all of its addresses are still registered.
RejectedEditChangesNothing ==
    \A ip \in IPs, in \in EditInputs :
        (DBHost(sdb, ip) # NIL /\ HostPut(sdb, ip, in.addrs, in.attrs).err # OK)
            => /\ HostPut(sdb, ip, in.addrs, in.attrs).d.Hosts = sdb.Hosts
               /\ HostPut(sdb, ip, in.addrs, in.attrs).d.ipToHost = sdb.ipToHost


\* ------------------------------------------------------------ CNAME lines

\* The host h matched the domain: its fqdn ends with the domain's name, or,
\* without fqdn, it has a hostname and an address whose domain is this one.
Matched(d, h, domain) ==
    IF d.host[h].Attrs.fqdn # <<>> THEN HasSuffix(d.host[h].Attrs.fqdn, domain.Name)
    ELSE /\ d.host[h].Attrs.hostname # <<>>
         /\ \E k \in DOMAIN d.host[h].Addrs :
                ipDomain(d, h, d.host[h].Addrs[k]) = domain.Name

\* The lines of s with one of the record types of rrs.
LinesOf(s, rrs) == {i \in 1..Len(s) : s[i].rr \in rrs}

\* C36: the forward export of a zone has CNAME lines of a host only if the
\* host matched the zone, and no CNAME line of a host of which it has no
\* address record.
CnameOnlyForMatchedHosts ==
    \A name \in DOMAIN sdb.Domains, h \in Range(sdb.Hosts) :
        With(hostLines(sdb, h, sdb.Domains[name]), LAMBDA lines :
            LinesOf(lines, {"CNAME"}) # {}
                => /\ Matched(sdb, h, sdb.Domains[name])
                   /\ LinesOf(lines, {"A", "AAAA"}) # {})


\* ------------------------------------------------------------ autogenerated records

\* The stored subnets the autogen pass is about: IPv4, with a pattern, the
\* effective domain being name, and at most 8 host bits.
AutogenSubnets(d, name) ==
    {s \in SubnetsUnder(d, d.Subnets) :
        /\ d.subnet[s].Net.bits = V4Bits
        /\ d.subnet[s].Attrs.pattern # <<>>
        /\ subnetDomain(d, s) = name
        /\ d.subnet[s].Net.bits - d.subnet[s].Net.ones <= 8}

\* The addresses of an IPv4 network n of at most 8 host bits: the first
\* three bytes are those of n.IP, and the bits of the last byte that the
\* prefix reaches are those of n.IP.
AddrsOf(n) ==
    {[To4(n.IP) EXCEPT ![4] = x] :
        x \in {y \in 0..255 : \A i \in 25..n.ones : Bit(<<y>>, i - 24) = Bit(To4(n.IP), i)}}

\* Some registered host has the address a.
HasOwner(d, a) ==
    \E h \in Range(d.Hosts) : \E k \in DOMAIN d.host[h].Addrs : IPEqual(d.host[h].Addrs[k], a)

\* C37: in every text the autogen pass can produce for a domain, each
\* address of each subnet it is about has exactly one A record when no host
\* owns it and none when a host does.
AutogenCoversFreeAddresses ==
    \A name \in DOMAIN sdb.Domains :
        \A w \in walkSubnets(sdb, sdb.Subnets, sdb.Domains[name]) :
            With(LinesOf(w, {"A"}), LAMBDA records :
                \A s \in AutogenSubnets(sdb, name) :
                    \A a \in AddrsOf(sdb.subnet[s].Net) :
                        Cardinality({i \in records : w[i].addr = To16(a)})
                            = IF HasOwner(sdb, a) THEN 0 ELSE 1)

\* A domain is stored, and a subnet the autogen pass is about holds the
\* address of a registered host beside a free one.
AutogenAroundHost ==
    \E name \in DOMAIN sdb.Domains : \E s \in AutogenSubnets(sdb, name) :
        /\ \E a \in AddrsOf(sdb.subnet[s].Net) : HasOwner(sdb, a)
        /\ \E a \in AddrsOf(sdb.subnet[s].Net) : ~HasOwner(sdb, a)


\* ------------------------------------------------------------ the tree listed

\* The number of times id is in the sequence s.
Times(s, id) == Cardinality({i \in 1..Len(s) : s[i] = id})

\* C38: whatever the order of the creations, GetPrefixTree does not fail,
\* and every prefix of the realm is in the forest once: among the roots
\* when it has no parent, else among the children of its parent.
TreeListsEveryPrefix ==
    \A realm \in RealmNames : \A t \in GetPrefixTree(sql, realm) :
        /\ ~t.panic
        /\ \A r \in PrefixesOf(sql, realm) :
               /\ Times(t.roots, r.prefix_id) = IF r.parent_id = NIL THEN 1 ELSE 0
               /\ \A p \in PrefixesOf(sql, realm) :
                      Times(t.children[p.prefix_id], r.prefix_id)
                          = IF r.parent_id = <<p.prefix_id>> THEN 1 ELSE 0


\* ------------------------------------------------------------ unsigned comparison

\* The 64-bit integers compared: the bounds of the stored rows and of the
\* prefixes looked up, and the ends of the signed and unsigned ranges.
Bounds64 ==
    UNION {{r.upper64, r.lower64, r.upper64_max, r.lower64_max} : r \in sql.prefixes}
    \cup UNION {{dbPrefixAsInt(NetString(q), hi, max) : hi \in BOOLEAN, max \in BOOLEAN} :
                   q \in MatchQueries}
    \cup {<<0, 0, 0, 0, 0, 0, 0, 0>>, <<0, 0, 0, 0, 0, 0, 0, 1>>,
          <<127, 255, 255, 255, 255, 255, 255, 255>>, <<128, 0, 0, 0, 0, 0, 0, 0>>,
          <<255, 255, 255, 255, 255, 255, 255, 254>>, <<255, 255, 255, 255, 255, 255, 255, 255>>}

\* C39: (a >= b) != ((a < 0) != (b < 0)) is a >= b with both integers read
\* as unsigned, and the <= form is a <= b unsigned; unsigned, the integer
\* with the lower first differing byte is the lower.
XorSignsIsUnsigned ==
    \A a \in Bounds64, b \in Bounds64 :
        /\ GeXorSigns(a, b) <=> ~BytesLess(a, b)
        /\ LeXorSigns(a, b) <=> ~BytesLess(b, a)

\* A stored prefix has an upper bound with the sign bit set, another one
\* has not.
BothSignsStored ==
    /\ \E r \in sql.prefixes : Negative(r.upper64)
    /\ \E r \in sql.prefixes : ~Negative(r.upper64) /\ ~Negative(r.upper64_max)


\* ------------------------------------------------------------ hosts and their addresses

\* C40: every registered host has at least one address, whatever hosts and
\* addresses were added and removed.
EveryHostHasAnAddress ==
    \A h \in Range(db.Hosts) : Len(db.host[h].Addrs) >= 1

====
